---- MODULE Spec2Model ----
(***************************************************************************)
(* Authorization-grant engine of the Matrix authentication service.        *)
(*                                                                         *)
(* The relational store is modelled table by table (one sequence per       *)
(* table, the row id being the index), the grant loader (GrantLookup ->    *)
(* AuthorizationGrant) as an operator, and every HTTP handler as one       *)
(* action that runs the whole handler inside its transaction.              *)
(*                                                                         *)
(* Time is counted in minutes; the clock advances TickLength minutes at a   *)
(* time.                                                                   *)
(***************************************************************************)
EXTENDS Integers, Sequences, FiniteSets, TLC

\* SQL NULL / Option::None of an integer column and of a text column.
NULL == -1
NONE == "NULL"

----------------------------------------------------------------------------
\* Bounds of the model.
MaxTicks == 2
TickLength == 10
MaxGrants == 1
MaxUserSessions == 1
MaxAuths == 1
MaxRequests == 2

\* Program constants, in minutes.
AccessTokenTtl == 5
GrantTtl == 10

Users == {"alice"}
Clients == {"web"}

\* Scope tokens, each the sequence of its ':'-separated segments.
OPENID == <<"openid">>
DEVICE == <<"urn", "matrix", "device", "AAA">>
DevicePrefix == <<"urn", "matrix", "device">>

ScopeInputs == {{OPENID}, {OPENID, DEVICE}}
MaxAgeInputs == {NULL, 10}
Codes == {"code1"}
\* Consent a user may have given a client before the grants of the model.
EarlierConsents == {{}, {OPENID}}

VARIABLES
    now,                 \* the wall clock
    grants,              \* table oauth2_authorization_grants
    user_sessions,       \* table user_sessions
    authentications,     \* table user_session_authentications
    oauth2_sessions,     \* table oauth2_sessions
    access_tokens,       \* table oauth2_access_tokens
    refresh_tokens,      \* table oauth2_refresh_tokens
    consents,            \* table oauth2_consents, per (user, client)
    response,            \* the last HTTP response sent
    lookup,              \* a GrantLookup row handed to the loader
    loaded,              \* what the loader made of it
    inflight,            \* per concurrent request: what it has read so far
    jar,                 \* the csrf cookie of the browser's cookie jar
    rendered,            \* the csrf form values rendered since the jar's secret was drawn, each with its time
    introspection,       \* the last outcome of the introspection endpoint
    next_sweep           \* when the task scheduler next runs the cleanup task

vars == <<now, grants, user_sessions, authentications, oauth2_sessions,
          access_tokens, refresh_tokens, consents, response, lookup, loaded,
          inflight, jar, rendered, introspection, next_sweep>>

\* What only the concurrent requests, the csrf protocol, introspection and
\* the task scheduler touch.
webvars == <<inflight, jar, rendered, introspection, next_sweep>>

dbvars == <<grants, user_sessions, authentications, oauth2_sessions,
            access_tokens, refresh_tokens, consents>>

----------------------------------------------------------------------------
\* str::starts_with on a scope token.
StartsWith(s, p) ==
    /\ Len(s) >= Len(p)
    /\ SubSeq(s, 1, Len(p)) = p

Max(S) == CHOOSE x \in S : \A y \in S : y <= x

----------------------------------------------------------------------------
(* The grant loader: TryInto<AuthorizationGrant> for GrantLookup.          *)

\* Option<T> of a structured value: <<>> is None, <<v>> is Some(v).
None == <<>>
Some(v) == <<v>>

DatabaseInconsistencyError == [ok |-> FALSE, error |-> "DatabaseInconsistencyError"]
\* The concurrent requests, and a request that holds nothing yet.
Requests == 1..MaxRequests
Idle == [op |-> "idle"]

NotLoaded == [ok |-> FALSE, error |-> "none"]

\* last_authentication: both columns or neither.
LookupLastAuthentication(row) ==
    IF /\ row.user_session_last_authentication_id # NULL
       /\ row.user_session_last_authentication_created_at # NULL
    THEN [ok |-> TRUE,
          value |-> Some([data |-> row.user_session_last_authentication_id,
                          created_at |-> row.user_session_last_authentication_created_at])]
    ELSE IF /\ row.user_session_last_authentication_id = NULL
            /\ row.user_session_last_authentication_created_at = NULL
    THEN [ok |-> TRUE, value |-> None]
    ELSE [ok |-> FALSE, value |-> None]

\* The OAuth session joined to the grant: all five columns or none of the six.
LookupSession(row, last_authentication) ==
    IF /\ row.session_id # NULL
       /\ row.user_session_id # NULL
       /\ row.user_session_created_at # NULL
       /\ row.user_id # NULL
       /\ row.user_username # NONE
    THEN [ok |-> TRUE,
          value |-> Some([data |-> row.session_id,
                          client |-> row.client_id,
                          browser_session |->
                              [data |-> row.user_session_id,
                               user |-> [data |-> row.user_id,
                                         username |-> row.user_username],
                               created_at |-> row.user_session_created_at,
                               last_authentication |-> last_authentication],
                          scope |-> row.grant_scope])]
    ELSE IF /\ row.session_id = NULL
            /\ row.user_session_id = NULL
            /\ row.user_session_created_at = NULL
            /\ row.user_id = NULL
            /\ row.user_username = NONE
            /\ last_authentication = None
    THEN [ok |-> TRUE, value |-> None]
    ELSE [ok |-> FALSE, value |-> None]

\* The stage, from (fulfilled_at, exchanged_at, cancelled_at, session).
\* (PendingStageMutant: the first match arm without its session pattern.)
PendingStageMutant(fulfilled_at, exchanged_at, cancelled_at, session) ==
    /\ fulfilled_at = NULL
    /\ exchanged_at = NULL
    /\ cancelled_at = NULL

PendingStage(fulfilled_at, exchanged_at, cancelled_at, session) ==
    /\ fulfilled_at = NULL
    /\ exchanged_at = NULL
    /\ cancelled_at = NULL
    /\ session = None

LookupStage(fulfilled_at, exchanged_at, cancelled_at, session) ==
    IF PendingStage(fulfilled_at, exchanged_at, cancelled_at, session)
    THEN [ok |-> TRUE,
          value |-> [name |-> "Pending", session |-> None, fulfilled_at |-> NULL,
                     exchanged_at |-> NULL, cancelled_at |-> NULL]]
    ELSE IF /\ fulfilled_at # NULL
            /\ exchanged_at = NULL
            /\ cancelled_at = NULL
            /\ session # None
    THEN [ok |-> TRUE,
          value |-> [name |-> "Fulfilled", session |-> session,
                     fulfilled_at |-> fulfilled_at,
                     exchanged_at |-> NULL, cancelled_at |-> NULL]]
    ELSE IF /\ fulfilled_at # NULL
            /\ exchanged_at # NULL
            /\ cancelled_at = NULL
            /\ session # None
    THEN [ok |-> TRUE,
          value |-> [name |-> "Exchanged", session |-> session,
                     fulfilled_at |-> fulfilled_at,
                     exchanged_at |-> exchanged_at, cancelled_at |-> NULL]]
    ELSE IF /\ fulfilled_at = NULL
            /\ exchanged_at = NULL
            /\ cancelled_at # NULL
            /\ session = None
    THEN [ok |-> TRUE,
          value |-> [name |-> "Cancelled", session |-> None, fulfilled_at |-> NULL,
                     exchanged_at |-> NULL, cancelled_at |-> cancelled_at]]
    ELSE [ok |-> FALSE,
          value |-> [name |-> "Inconsistent", session |-> None, fulfilled_at |-> NULL,
                     exchanged_at |-> NULL, cancelled_at |-> NULL]]

\* PKCE: both columns with a known method, or neither.
LookupPkce(challenge, challenge_method) ==
    IF challenge # NONE /\ challenge_method = "plain"
    THEN [ok |-> TRUE, value |-> Some([challenge_method |-> "plain", challenge |-> challenge])]
    ELSE IF challenge # NONE /\ challenge_method = "S256"
    THEN [ok |-> TRUE, value |-> Some([challenge_method |-> "S256", challenge |-> challenge])]
    ELSE IF challenge = NONE /\ challenge_method = NONE
    THEN [ok |-> TRUE, value |-> None]
    ELSE [ok |-> FALSE, value |-> None]

\* The authorization code: (response_type_code, code, pkce).
\* (LookupCodeMutant: the first arm matches whatever the PKCE columns hold.)
LookupCodeMutant(response_type_code, code, pkce) ==
    IF ~response_type_code /\ code = NONE
    THEN [ok |-> TRUE, value |-> None]
    ELSE IF response_type_code /\ code # NONE
    THEN [ok |-> TRUE, value |-> Some([code |-> code, pkce |-> pkce])]
    ELSE [ok |-> FALSE, value |-> None]

LookupCode(response_type_code, code, pkce) ==
    IF ~response_type_code /\ code = NONE /\ pkce = None
    THEN [ok |-> TRUE, value |-> None]
    ELSE IF response_type_code /\ code # NONE
    THEN [ok |-> TRUE, value |-> Some([code |-> code, pkce |-> pkce])]
    ELSE [ok |-> FALSE, value |-> None]

TryInto(row) ==
    LET last_authentication == LookupLastAuthentication(row) IN
    IF ~last_authentication.ok THEN DatabaseInconsistencyError ELSE
    LET session == LookupSession(row, last_authentication.value) IN
    IF ~session.ok THEN DatabaseInconsistencyError ELSE
    LET stage == LookupStage(row.grant_fulfilled_at, row.grant_exchanged_at,
                             row.grant_cancelled_at, session.value) IN
    IF ~stage.ok THEN DatabaseInconsistencyError ELSE
    LET pkce == LookupPkce(row.grant_code_challenge, row.grant_code_challenge_method) IN
    IF ~pkce.ok THEN DatabaseInconsistencyError ELSE
    LET code == LookupCode(row.grant_response_type_code, row.grant_code, pkce.value) IN
    IF ~code.ok THEN DatabaseInconsistencyError ELSE
    [ok |-> TRUE,
     data |-> row.grant_id,
     stage |-> stage.value,
     client |-> row.client_id,
     code |-> code.value,
     scope |-> row.grant_scope,
     max_age |-> NULL,
     created_at |-> row.grant_created_at,
     requires_consent |-> row.grant_requires_consent,
     response_type_token |-> row.grant_response_type_token,
     response_type_id_token |-> row.grant_response_type_id_token]

----------------------------------------------------------------------------
(* The loader applied to arbitrary rows: every combination of null and     *)
(* non-null columns a LEFT JOIN result can hold.                           *)

LookupRows ==
    [grant_id : {1},
     grant_created_at : {0},
     grant_cancelled_at : {NULL, 20},
     grant_fulfilled_at : {NULL, 10},
     grant_exchanged_at : {NULL, 20},
     grant_scope : {{OPENID}},
     grant_max_age : MaxAgeInputs,
     grant_requires_consent : {FALSE},
     grant_response_type_code : BOOLEAN,
     grant_response_type_token : {FALSE},
     grant_response_type_id_token : {FALSE},
     grant_code : {NONE, "code1"},
     grant_code_challenge : {NONE, "challenge"},
     grant_code_challenge_method : {NONE, "plain", "S256", "S512"},
     client_id : Clients,
     session_id : {NULL, 1},
     user_session_id : {NULL, 1},
     user_session_created_at : {NULL, 0},
     user_id : {NULL, 1},
     user_username : {NONE, "alice"},
     user_session_last_authentication_id : {NULL, 1},
     user_session_last_authentication_created_at : {NULL, 0}]

IdleRow ==
    [grant_id |-> 1, grant_created_at |-> 0, grant_cancelled_at |-> NULL,
     grant_fulfilled_at |-> NULL, grant_exchanged_at |-> NULL,
     grant_scope |-> {OPENID}, grant_max_age |-> NULL,
     grant_requires_consent |-> FALSE,
     grant_response_type_code |-> FALSE, grant_response_type_token |-> FALSE,
     grant_response_type_id_token |-> FALSE, grant_code |-> NONE,
     grant_code_challenge |-> NONE, grant_code_challenge_method |-> NONE,
     client_id |-> "web", session_id |-> NULL, user_session_id |-> NULL,
     user_session_created_at |-> NULL, user_id |-> NULL, user_username |-> NONE,
     user_session_last_authentication_id |-> NULL,
     user_session_last_authentication_created_at |-> NULL]

\* No introspection request answered yet.
NotIntrospected ==
    [status |-> 0, trace |-> <<>>, client |-> <<>>, token |-> <<>>,
     credentials_verify |-> FALSE, form |-> FALSE]

NoResponse ==
    [kind |-> "none", status |-> 0, grant |-> NULL, code |-> None,
     access_token |-> None, refresh_token |-> None, expires_in |-> NULL,
     id_token |-> None, session_cookie |-> NULL]

InitTables ==
    /\ now = 0
    /\ grants = <<>>
    /\ user_sessions = <<>>
    /\ authentications = <<>>
    /\ oauth2_sessions = <<>>
    /\ access_tokens = <<>>
    /\ refresh_tokens = <<>>
    /\ response = NoResponse
    /\ inflight = [p \in Requests |-> Idle]
    /\ jar = None
    /\ rendered = {}
    /\ introspection = NotIntrospected
    /\ next_sweep = 0

InitDb ==
    /\ InitTables
    /\ consents = [uc \in Users \X Clients |-> {}]

InitLoad ==
    /\ InitDb
    /\ lookup \in LookupRows
    /\ loaded = NotLoaded

\* get_grant_by_id / lookup_grant_by_code once the row is fetched: res.try_into()
LoadRow ==
    /\ loaded = NotLoaded
    /\ loaded' = TryInto(lookup)
    /\ UNCHANGED <<now, dbvars, response, lookup, webvars>>

NextLoad == LoadRow

SpecLoad == InitLoad /\ [][NextLoad]_vars

----------------------------------------------------------------------------
(* The relational store.  A transaction works on a copy of the tables      *)
(* (Db) and either commits it or drops it.                                 *)

I32Max == 2147483647

Db ==
    [grants |-> grants, oauth2_sessions |-> oauth2_sessions,
     access_tokens |-> access_tokens, refresh_tokens |-> refresh_tokens,
     consents |-> consents]

\* txn.commit(): the tables become those of the transaction.
Commit(txn) ==
    /\ grants' = txn.grants
    /\ oauth2_sessions' = txn.oauth2_sessions
    /\ access_tokens' = txn.access_tokens
    /\ refresh_tokens' = txn.refresh_tokens
    /\ consents' = txn.consents

\* The transaction is dropped without commit: nothing it wrote persists.
Rollback ==
    UNCHANGED <<grants, oauth2_sessions, access_tokens, refresh_tokens, consents>>

\* A u32 is held as its two 16-bit halves, the integers of the checker being
\* 32-bit signed themselves.
HalfWord == 2^16

\* Option<NonZeroU32> of a max_age of the model's requests (NULL or 1..i32::MAX).
NonZeroU32(n) ==
    IF n = NULL THEN None ELSE Some([hi |-> n \div HalfWord, lo |-> n % HalfWord])

\* i32::try_from(u32)
I32TryFrom(x) ==
    IF x.hi < HalfWord \div 2 THEN Some(x.hi * HalfWord + x.lo) ELSE None

\* (MaxAgeColumnMutant: `u32::from(x) as i32`, which wraps around.)
MaxAgeColumnMutant(max_age) ==
    IF max_age = None THEN NULL
    ELSE IF max_age[1].hi < HalfWord \div 2
    THEN max_age[1].hi * HalfWord + max_age[1].lo
    ELSE (max_age[1].hi - HalfWord) * HalfWord + max_age[1].lo

\* max_age.map(|x| i32::try_from(u32::from(x)).unwrap_or(i32::MAX))
MaxAgeColumn(max_age) ==
    IF max_age = None THEN NULL
    ELSE LET converted == I32TryFrom(max_age[1]) IN
         IF converted = None THEN I32Max ELSE converted[1]

\* (NewGrantRowMutant: the row is inserted already cancelled.)
NewGrantRowMutant(client_id, scope, code, pkce, max_age, requires_consent, response_type_token, response_type_id_token) ==
    [created_at |-> now,
     cancelled_at |-> now,
     fulfilled_at |-> NULL,
     exchanged_at |-> NULL,
     oauth2_session_id |-> NULL,
     client_id |-> client_id,
     scope |-> scope,
     max_age |-> MaxAgeColumn(max_age),
     requires_consent |-> requires_consent,
     response_type_code |-> code # None,
     response_type_token |-> response_type_token,
     response_type_id_token |-> response_type_id_token,
     code |-> IF code = None THEN NONE ELSE code[1],
     code_challenge |-> IF pkce = None THEN NONE ELSE pkce[1].challenge,
     code_challenge_method |-> IF pkce = None THEN NONE ELSE pkce[1].challenge_method]

\* INSERT INTO oauth2_authorization_grants ... (code is UNIQUE when non-null)
NewGrantRow(client_id, scope, code, pkce, max_age, requires_consent, response_type_token, response_type_id_token) ==
    [created_at |-> now,
     cancelled_at |-> NULL,
     fulfilled_at |-> NULL,
     exchanged_at |-> NULL,
     oauth2_session_id |-> NULL,
     client_id |-> client_id,
     scope |-> scope,
     max_age |-> MaxAgeColumn(max_age),
     requires_consent |-> requires_consent,
     response_type_code |-> code # None,
     response_type_token |-> response_type_token,
     response_type_id_token |-> response_type_id_token,
     code |-> IF code = None THEN NONE ELSE code[1],
     code_challenge |-> IF pkce = None THEN NONE ELSE pkce[1].challenge,
     code_challenge_method |-> IF pkce = None THEN NONE ELSE pkce[1].challenge_method]

\* (CodeInUseMutant: the UNIQUE index on code left out.)
CodeInUseMutant(code) == FALSE

CodeInUse(code) ==
    \E g \in DOMAIN grants : grants[g].code = code

\* The rows the lookup query yields for grant g of the transaction's tables:
\* one per authentication of the joined browser session (LEFT JOINs).
JoinRows(txn, g) ==
    LET og == txn.grants[g]
        os_id == og.oauth2_session_id
        us_id == IF os_id # NULL THEN txn.oauth2_sessions[os_id].user_session_id ELSE NULL
        usas == IF us_id = NULL THEN {}
                ELSE {a \in DOMAIN authentications : authentications[a].session_id = us_id}
    IN  { [grant_id |-> g,
           grant_created_at |-> og.created_at,
           grant_cancelled_at |-> og.cancelled_at,
           grant_fulfilled_at |-> og.fulfilled_at,
           grant_exchanged_at |-> og.exchanged_at,
           grant_scope |-> og.scope,
           grant_max_age |-> og.max_age,
           grant_requires_consent |-> og.requires_consent,
           grant_response_type_code |-> og.response_type_code,
           grant_response_type_token |-> og.response_type_token,
           grant_response_type_id_token |-> og.response_type_id_token,
           grant_code |-> og.code,
           grant_code_challenge |-> og.code_challenge,
           grant_code_challenge_method |-> og.code_challenge_method,
           client_id |-> og.client_id,
           session_id |-> os_id,
           user_session_id |-> us_id,
           user_session_created_at |->
               IF us_id = NULL THEN NULL ELSE user_sessions[us_id].created_at,
           user_id |-> IF us_id = NULL THEN NULL ELSE 1,
           user_username |-> IF us_id = NULL THEN NONE ELSE user_sessions[us_id].user,
           user_session_last_authentication_id |-> a,
           user_session_last_authentication_created_at |->
               IF a = NULL THEN NULL ELSE authentications[a].created_at]
          : a \in IF usas = {} THEN {NULL} ELSE usas }

RowNotFound == [ok |-> FALSE, error |-> "RowNotFound"]

\* get_grant_by_id: fetch_one, then try_into.
GetGrantById(txn, id) ==
    IF id \notin DOMAIN txn.grants THEN {RowNotFound}
    ELSE {TryInto(row) : row \in JoinRows(txn, id)}

\* lookup_grant_by_code: the same query WHERE og.code = $1.
LookupGrantByCode(txn, code) ==
    LET ids == {g \in DOMAIN txn.grants : txn.grants[g].code = code} IN
    IF ids = {} THEN {RowNotFound}
    ELSE UNION {{TryInto(row) : row \in JoinRows(txn, g)} : g \in ids}

----------------------------------------------------------------------------
(* Storage operations of the session and token ledger.                     *)

\* The most recent authentication event of a browser session.
LastAuthentication(us_id) ==
    LET usas == {a \in DOMAIN authentications : authentications[a].session_id = us_id} IN
    IF usas = {} THEN None
    ELSE Some([data |-> Max(usas), created_at |-> authentications[Max(usas)].created_at])

\* session_info.load_session: the active browser session the cookie names.
LoadSession(cookie) ==
    IF /\ cookie \in DOMAIN user_sessions
       /\ user_sessions[cookie].finished_at = NULL
    THEN Some([data |-> cookie,
               user |-> [data |-> 1, username |-> user_sessions[cookie].user],
               created_at |-> user_sessions[cookie].created_at,
               last_authentication |-> LastAuthentication(cookie)])
    ELSE None

\* grant.max_auth_time(): the instant after which the user must have authenticated.
Unbounded == (MaxTicks + 1) * TickLength
MaxAuthTime(grant) ==
    now - (IF grant.max_age = NULL THEN Unbounded ELSE grant.max_age)

\* browser_session.was_authenticated_after(after)
WasAuthenticatedAfter(browser_session, after) ==
    /\ browser_session.last_authentication # None
    /\ browser_session.last_authentication[1].created_at >= after

\* fetch_client_consent(user, client)
FetchClientConsent(txn, user, client) ==
    txn.consents[<<user.username, client>>]

\* derive_session: INSERT INTO oauth2_sessions
DeriveSession(txn, grant, browser_session) ==
    [txn EXCEPT !.oauth2_sessions =
        Append(@, [user_session_id |-> browser_session.data,
                   client_id |-> grant.client,
                   scope |-> grant.scope,
                   created_at |-> now,
                   finished_at |-> NULL])]

\* (FulfillGrantMutant: the consent is not recorded.)
FulfillGrantMutant(txn, grant, session_id) ==
    [txn EXCEPT !.grants[grant.data].fulfilled_at = now,
                !.grants[grant.data].oauth2_session_id = session_id]

\* fulfill_grant: link the session, set fulfilled_at, record the consent.
FulfillGrant(txn, grant, session_id) ==
    LET uc == <<user_sessions[txn.oauth2_sessions[session_id].user_session_id].user,
                grant.client>>
    IN  [txn EXCEPT !.grants[grant.data].fulfilled_at = now,
                    !.grants[grant.data].oauth2_session_id = session_id,
                    !.consents[uc] = @ \cup grant.scope]

\* The token codec: a token string is {prefix}_{random}_{crc}, here the
\* record of its three parts.
CrcModulus == 7

TokenPrefix(kind) == IF kind = "AccessToken" THEN "mat_ac" ELSE "mat_rt"

\* The checksum over prefix || random.
Checksum(prefix, random) ==
    ((IF prefix = "mat_ac" THEN 3 ELSE IF prefix = "mat_rt" THEN 5 ELSE 1)
        + 2 * random) % CrcModulus

\* TokenType::generate: the prefix of the kind, fresh random material and
\* the checksum of both.
\* (TokenGenerateMutant: the checksum is taken over the random part only.)
TokenGenerateMutant(kind, random) ==
    [prefix |-> TokenPrefix(kind), random |-> random, crc |-> Checksum("", random)]

TokenGenerate(kind, random) ==
    [prefix |-> TokenPrefix(kind), random |-> random,
     crc |-> Checksum(TokenPrefix(kind), random)]

AccessTokenStr(txn) == TokenGenerate("AccessToken", Len(txn.access_tokens) + 1)
RefreshTokenStr(txn) == TokenGenerate("RefreshToken", Len(txn.refresh_tokens) + 1)

\* add_access_token: INSERT INTO oauth2_access_tokens
AddAccessToken(txn, session_id, token, ttl) ==
    [txn EXCEPT !.access_tokens =
        Append(@, [oauth2_session_id |-> session_id,
                   token |-> token,
                   created_at |-> now,
                   expires_after |-> ttl,
                   revoked_at |-> NULL])]

\* add_refresh_token: INSERT INTO oauth2_refresh_tokens
AddRefreshToken(txn, session_id, access_token_id, token) ==
    [txn EXCEPT !.refresh_tokens =
        Append(@, [oauth2_session_id |-> session_id,
                   access_token_id |-> access_token_id,
                   token |-> token,
                   created_at |-> now,
                   consumed_at |-> NULL,
                   next_refresh_token_id |-> NULL])]

----------------------------------------------------------------------------
(* The grant-completion orchestrator: GET /authorize/:id.                  *)

\* A statement of the handler an I/O failure is injected at ("none": no failure).
Faults == {"none", "derive_session", "fulfill_grant", "add_access_token",
           "add_refresh_token", "commit", "render"}

\* AuthorizationResponse::default()
DefaultParams ==
    [code |-> None, access_token |-> None, refresh_token |-> None,
     expires_in |-> NULL, id_token |-> None]

\* What complete() returns: its result, whether it committed, the
\* transaction's tables and the authorization response.
Returns(result, committed, txn, params) ==
    [result |-> result, committed |-> committed, txn |-> txn, params |-> params]

\* grant.scope.difference(&current_consent).any(|scope| !scope.starts_with("urn:matrix:device:"))
\* (LacksConsentMutant: the difference alone, device scopes included.)
LacksConsentMutant(scope, current_consent) ==
    scope \ current_consent # {}

LacksConsent(scope, current_consent) ==
    \E token \in scope \ current_consent : ~StartsWith(token, DevicePrefix)

\* The implicit-flow part of complete(): mint the access and refresh tokens.
\* (IssueTokensMutant: the refresh token is bound to the wrong access token.)
IssueTokensMutant(txn, session_id, params, fault) ==
    LET ttl == AccessTokenTtl
        access_token_str == AccessTokenStr(txn)
        refresh_token_str == RefreshTokenStr(txn)
        txn1 == AddAccessToken(txn, session_id, access_token_str, ttl)
        txn2 == AddRefreshToken(txn1, session_id, Len(txn.access_tokens),
                                refresh_token_str)
    IN  Returns("Ok", FALSE, txn2,
                [params EXCEPT !.access_token = Some(access_token_str),
                               !.expires_in = ttl,
                               !.refresh_token = Some(refresh_token_str)])

IssueTokens(txn, session_id, params, fault) ==
    LET ttl == AccessTokenTtl
        access_token_str == AccessTokenStr(txn)
        refresh_token_str == RefreshTokenStr(txn)
        txn1 == AddAccessToken(txn, session_id, access_token_str, ttl)
        txn2 == AddRefreshToken(txn1, session_id, Len(txn1.access_tokens),
                                refresh_token_str)
    IN  IF fault = "add_access_token" THEN Returns("Internal", FALSE, txn, DefaultParams)
        ELSE IF fault = "add_refresh_token" THEN Returns("Internal", FALSE, txn1, DefaultParams)
        ELSE Returns("Ok", FALSE, txn2,
                     [params EXCEPT !.access_token = Some(access_token_str),
                                    !.expires_in = ttl,
                                    !.refresh_token = Some(refresh_token_str)])

\* (StartSessionMutant: the ID-token error is returned after the commit.)
StartSessionMutant(grant, browser_session, txn, fault) ==
    LET txn1 == DeriveSession(txn, grant, browser_session)
        session_id == Len(txn1.oauth2_sessions)
        txn2 == FulfillGrant(txn1, grant, session_id)
        params == [DefaultParams EXCEPT
                      !.code = IF grant.code # None THEN Some(grant.code[1].code) ELSE None]
        issued == IF grant.response_type_token
                  THEN IssueTokens(txn2, session_id, params, fault)
                  ELSE Returns("Ok", FALSE, txn2, params)
    IN  IF fault = "derive_session" THEN Returns("Internal", FALSE, txn, DefaultParams)
        ELSE IF fault = "fulfill_grant" THEN Returns("Internal", FALSE, txn1, DefaultParams)
        ELSE IF issued.result # "Ok" THEN issued
        ELSE IF fault = "commit" THEN Returns("Internal", FALSE, issued.txn, DefaultParams)
        ELSE IF grant.response_type_id_token
        THEN Returns("Anyhow", TRUE, issued.txn, DefaultParams)
        ELSE Returns("Ok", TRUE, issued.txn, issued.params)

\* complete(): from "All good, let's start the session" to the final commit.
StartSession(grant, browser_session, txn, fault) ==
    LET txn1 == DeriveSession(txn, grant, browser_session)
        session_id == Len(txn1.oauth2_sessions)
        txn2 == FulfillGrant(txn1, grant, session_id)
        params == [DefaultParams EXCEPT
                      !.code = IF grant.code # None THEN Some(grant.code[1].code) ELSE None]
        issued == IF grant.response_type_token
                  THEN IssueTokens(txn2, session_id, params, fault)
                  ELSE Returns("Ok", FALSE, txn2, params)
    IN  IF fault = "derive_session" THEN Returns("Internal", FALSE, txn, DefaultParams)
        ELSE IF fault = "fulfill_grant" THEN Returns("Internal", FALSE, txn1, DefaultParams)
        ELSE IF issued.result # "Ok" THEN issued
        ELSE IF grant.response_type_id_token
        THEN Returns("Anyhow", FALSE, issued.txn, DefaultParams)
        ELSE IF fault = "commit" THEN Returns("Internal", FALSE, issued.txn, DefaultParams)
        ELSE Returns("Ok", TRUE, issued.txn, issued.params)

\* grant.stage.is_pending()
\* (IsPendingMutant: the stage check left out.)
IsPendingMutant(grant) == TRUE

IsPending(grant) == grant.stage.name = "Pending"

\* (CompleteMutant: the consent check made before the freshness check.)
CompleteMutant(grant, browser_session, txn, fault) ==
    IF ~IsPending(grant)
    THEN Returns("NotPending", FALSE, txn, DefaultParams)
    ELSE IF \/ LacksConsent(grant.scope,
                            FetchClientConsent(txn, browser_session.user, grant.client))
            \/ grant.requires_consent
    THEN IF fault = "commit" THEN Returns("Internal", FALSE, txn, DefaultParams)
         ELSE Returns("RequiresConsent", TRUE, txn, DefaultParams)
    ELSE IF ~WasAuthenticatedAfter(browser_session, MaxAuthTime(grant))
    THEN IF fault = "commit" THEN Returns("Internal", FALSE, txn, DefaultParams)
         ELSE Returns("RequiresReauth", TRUE, txn, DefaultParams)
    ELSE StartSession(grant, browser_session, txn, fault)

Complete(grant, browser_session, txn, fault) ==
    IF ~IsPending(grant)
    THEN Returns("NotPending", FALSE, txn, DefaultParams)
    ELSE IF ~WasAuthenticatedAfter(browser_session, MaxAuthTime(grant))
    THEN IF fault = "commit" THEN Returns("Internal", FALSE, txn, DefaultParams)
         ELSE Returns("RequiresReauth", TRUE, txn, DefaultParams)
    ELSE IF \/ LacksConsent(grant.scope,
                            FetchClientConsent(txn, browser_session.user, grant.client))
            \/ grant.requires_consent
    THEN IF fault = "commit" THEN Returns("Internal", FALSE, txn, DefaultParams)
         ELSE Returns("RequiresConsent", TRUE, txn, DefaultParams)
    ELSE StartSession(grant, browser_session, txn, fault)

Redirect(kind, grant_id) ==
    [NoResponse EXCEPT !.kind = kind, !.status = 303, !.grant = grant_id]

\* mas_router::Login::and_then(continue_grant).go()
\* (LoginRedirectMutant: the redirect without its continuation.)
LoginRedirectMutant(grant_id) == Redirect("login", NULL)

LoginRedirect(grant_id) == Redirect("login", grant_id)

ErrorResponse(status) ==
    [NoResponse EXCEPT !.kind = "error", !.status = status]

\* callback_destination.go(&templates, params)
Callback(grant_id, params) ==
    [kind |-> "callback", status |-> 200, grant |-> grant_id,
     code |-> params.code, access_token |-> params.access_token,
     refresh_token |-> params.refresh_token, expires_in |-> params.expires_in,
     id_token |-> params.id_token, session_cookie |-> NULL]

\* (CompletionResponseMutant: a grant that is not Pending answered as an
\* internal error.)
CompletionResponseMutant(grant_id, r, fault) ==
    CASE r.result = "Ok" ->
            IF fault = "render" THEN ErrorResponse(500) ELSE Callback(grant_id, r.params)
      [] r.result = "RequiresReauth" -> Redirect("reauth", grant_id)
      [] r.result = "RequiresConsent" -> Redirect("consent", grant_id)
      [] OTHER -> ErrorResponse(500)

\* What get() answers once complete() returned.
CompletionResponse(grant_id, r, fault) ==
    CASE r.result = "Ok" ->
            IF fault = "render" THEN ErrorResponse(500) ELSE Callback(grant_id, r.params)
      [] r.result = "RequiresReauth" -> Redirect("reauth", grant_id)
      [] r.result = "RequiresConsent" -> Redirect("consent", grant_id)
      [] r.result = "NotPending" -> ErrorResponse(400)
      [] OTHER -> ErrorResponse(500)

\* get(): the handler of GET /authorize/:id.
Get(grant_id, cookie, fault) ==
    LET txn == Db
        maybe_session == LoadSession(cookie)
    IN  \E grant \in GetGrantById(txn, grant_id) :
            IF ~grant.ok
            THEN /\ response' = ErrorResponse(500)
                 /\ Rollback
            ELSE IF maybe_session = None
            THEN /\ response' = LoginRedirect(grant_id)
                 /\ Rollback
            ELSE LET r == Complete(grant, maybe_session[1], txn, fault) IN
                 /\ response' = CompletionResponse(grant_id, r, fault)
                 /\ IF r.committed THEN Commit(r.txn) ELSE Rollback

CompleteGet ==
    \E grant_id \in 1..MaxGrants, cookie \in {NULL} \cup (1..MaxUserSessions),
       fault \in Faults :
        /\ Get(grant_id, cookie, fault)
        /\ UNCHANGED <<now, user_sessions, authentications, lookup, loaded, webvars>>

----------------------------------------------------------------------------
(* The other operations on grants, sessions and tokens.                    *)

Other == [NoResponse EXCEPT !.kind = "other"]

\* Response types drawn by the model, out of the seven valid ones (at least
\* one of code, token, id_token): code, token, code token, code id_token.
ResponseTypeInputs ==
    {rt \in [code : BOOLEAN, token : BOOLEAN, id_token : BOOLEAN] :
        /\ rt.code \/ rt.token
        /\ rt.id_token => rt.code /\ ~rt.token}

\* GET /oauth2/authorize: new_authorization_grant with a code generated only
\* for a response type that includes "code".
Authorize ==
    \E client \in Clients, scope \in ScopeInputs, rt \in ResponseTypeInputs,
       max_age \in MaxAgeInputs, requires_consent \in BOOLEAN, c \in Codes :
        LET code == IF rt.code THEN Some(c) ELSE None IN
        /\ Len(grants) < MaxGrants
        /\ IF code # None /\ CodeInUse(c)
           THEN /\ response' = ErrorResponse(500)
                /\ UNCHANGED grants
           ELSE /\ grants' = Append(grants,
                        NewGrantRow(client, scope, code, None, NonZeroU32(max_age),
                                    requires_consent, rt.token, rt.id_token))
                /\ response' = Redirect("authorize", Len(grants) + 1)
        /\ UNCHANGED <<now, user_sessions, authentications, oauth2_sessions,
                       access_tokens, refresh_tokens, consents, lookup, loaded, webvars>>

Tick ==
    /\ now + TickLength <= MaxTicks * TickLength
    /\ now' = now + TickLength
    /\ UNCHANGED <<dbvars, response, lookup, loaded, webvars>>

\* register: start_session(user), no authentication event yet.
Register ==
    \E user \in Users :
        /\ Len(user_sessions) < MaxUserSessions
        /\ user_sessions' = Append(user_sessions,
                [user |-> user, created_at |-> now, finished_at |-> NULL])
        /\ response' = Other
        /\ UNCHANGED <<now, grants, authentications, oauth2_sessions, access_tokens,
                       refresh_tokens, consents, lookup, loaded, webvars>>

\* POST /login: start_session(user), then authenticate(session, password).
Login ==
    \E user \in Users :
        /\ Len(user_sessions) < MaxUserSessions
        /\ Len(authentications) < MaxAuths
        /\ user_sessions' = Append(user_sessions,
                [user |-> user, created_at |-> now, finished_at |-> NULL])
        /\ authentications' = Append(authentications,
                [session_id |-> Len(user_sessions) + 1, created_at |-> now])
        /\ response' = Other
        /\ UNCHANGED <<now, grants, oauth2_sessions, access_tokens,
                       refresh_tokens, consents, lookup, loaded, webvars>>

\* POST /reauth with the right password: a new authentication event.
Reauth ==
    \E cookie \in 1..MaxUserSessions :
        /\ LoadSession(cookie) # None
        /\ Len(authentications) < MaxAuths
        /\ authentications' = Append(authentications,
                [session_id |-> cookie, created_at |-> now])
        /\ response' = Other
        /\ UNCHANGED <<now, grants, user_sessions, oauth2_sessions, access_tokens,
                       refresh_tokens, consents, lookup, loaded, webvars>>

\* POST /logout: end_session(session).
Logout ==
    \E cookie \in 1..MaxUserSessions :
        /\ LoadSession(cookie) # None
        /\ user_sessions' = [user_sessions EXCEPT ![cookie].finished_at = now]
        /\ response' = Other
        /\ UNCHANGED <<now, grants, authentications, oauth2_sessions, access_tokens,
                       refresh_tokens, consents, lookup, loaded, webvars>>

\* cancel(): Pending -> Cancelled.
CancelGrant(txn, g) ==
    [txn EXCEPT !.grants[g].cancelled_at = now]

\* POST /consent/:id: the user grants (record_consent, the grant no longer
\* asks for consent) or denies (the grant is cancelled).
ConsentPost ==
    \E g \in DOMAIN grants, cookie \in 1..MaxUserSessions, allow \in BOOLEAN :
        LET session == LoadSession(cookie)
            og == grants[g]
            uc == <<session[1].user.username, og.client_id>>
        IN
        /\ session # None
        /\ \E grant \in GetGrantById(Db, g) : grant.ok /\ IsPending(grant)
        /\ IF allow
           THEN /\ og.requires_consent \/ LacksConsent(og.scope, consents[uc])
                /\ consents' = [consents EXCEPT ![uc] = @ \cup og.scope]
                /\ grants' = [grants EXCEPT ![g].requires_consent = FALSE]
           ELSE /\ grants' = CancelGrant(Db, g).grants
                /\ UNCHANGED consents
        /\ response' = Other
        /\ UNCHANGED <<now, user_sessions, authentications, oauth2_sessions,
                       access_tokens, refresh_tokens, lookup, loaded, webvars>>

\* exchange(): Fulfilled -> Exchanged.
ExchangeGrant(txn, g) ==
    [txn EXCEPT !.grants[g].exchanged_at = now]

\* (RevokeSessionMutant: the session is finished, its access tokens are kept.)
RevokeSessionMutant(txn, session_id) ==
    [txn EXCEPT
        !.oauth2_sessions[session_id].finished_at = IF @ = NULL THEN now ELSE @]

\* Every token of an OAuth session is made inactive.
RevokeSession(txn, session_id) ==
    [txn EXCEPT
        !.oauth2_sessions[session_id].finished_at = IF @ = NULL THEN now ELSE @,
        !.access_tokens =
            [i \in DOMAIN @ |->
                IF @[i].oauth2_session_id = session_id /\ @[i].revoked_at = NULL
                THEN [@[i] EXCEPT !.revoked_at = now] ELSE @[i]]]

\* POST /oauth2/token, grant_type=authorization_code.
\* What the token endpoint does with the grant its lookup returned.
TokenAnswer(grant) ==
    IF ~grant.ok
       THEN /\ response' = ErrorResponse(400)
            /\ Rollback
       ELSE IF grant.stage.name = "Fulfilled"
       THEN LET txn1 == ExchangeGrant(Db, grant.data)
                r == IssueTokens(txn1, grant.stage.session[1].data,
                                 DefaultParams, "none")
            IN  /\ Commit(r.txn)
                /\ response' = [NoResponse EXCEPT
                       !.kind = "token", !.status = 200,
                       !.grant = grant.data,
                       !.access_token = r.params.access_token,
                       !.refresh_token = r.params.refresh_token,
                       !.expires_in = r.params.expires_in]
       ELSE IF grant.stage.name = "Exchanged"
       THEN /\ Commit(RevokeSession(Db, grant.stage.session[1].data))
            /\ response' = ErrorResponse(400)
       ELSE /\ response' = ErrorResponse(400)
            /\ Rollback

TokenPost(code) ==
    \E grant \in LookupGrantByCode(Db, code) :
        /\ TokenAnswer(grant)
        /\ UNCHANGED <<now, user_sessions, authentications, lookup, loaded, webvars>>

TokenExchange == \E code \in Codes : TokenPost(code)

\* TokenType::check: the type tag of a presented token string.
\* (TokenTypeCheckMutant: the checksum is not verified.)
TokenTypeCheckMutant(token) ==
    IF token.prefix = "mat_ac" THEN "AccessToken"
    ELSE IF token.prefix = "mat_rt" THEN "RefreshToken"
    ELSE "TokenFormatError"

TokenTypeCheck(token) ==
    IF token.prefix \notin {"mat_ac", "mat_rt"} THEN "TokenFormatError"
    ELSE IF token.crc # Checksum(token.prefix, token.random) THEN "TokenFormatError"
    ELSE IF token.prefix = "mat_ac" THEN "AccessToken"
    ELSE "RefreshToken"

\* lookup_active_access_token: not revoked and not expired.
\* (LookupActiveAccessTokenMutant: the expiry is not looked at.)
LookupActiveAccessTokenMutant(token) ==
    {t \in DOMAIN access_tokens :
        /\ access_tokens[t].token = token
        /\ access_tokens[t].revoked_at = NULL}

LookupActiveAccessToken(token) ==
    {t \in DOMAIN access_tokens :
        /\ access_tokens[t].token = token
        /\ access_tokens[t].revoked_at = NULL
        /\ access_tokens[t].created_at + access_tokens[t].expires_after > now}

\* lookup_active_refresh_token: not consumed, the owning session not finished.
LookupActiveRefreshToken(token) ==
    {t \in DOMAIN refresh_tokens :
        /\ refresh_tokens[t].token = token
        /\ refresh_tokens[t].consumed_at = NULL
        /\ oauth2_sessions[refresh_tokens[t].oauth2_session_id].finished_at = NULL}

INACTIVE ==
    [active |-> FALSE, scope |-> None, client_id |-> None, username |-> None,
     token_type |-> None, exp |-> None, iat |-> None, nbf |-> None,
     sub |-> None, aud |-> None, iss |-> None, jti |-> None]

\* The reply for a token found active, with its session.
ActiveReply(row, token_type, exp) ==
    LET session == oauth2_sessions[row.oauth2_session_id] IN
    [active |-> TRUE,
     scope |-> Some(session.scope),
     client_id |-> Some(session.client_id),
     username |-> Some(user_sessions[session.user_session_id].user),
     token_type |-> Some(token_type),
     exp |-> exp,
     iat |-> Some(row.created_at),
     nbf |-> Some(row.created_at),
     sub |-> Some(<<"sub", user_sessions[session.user_session_id].user>>),
     aud |-> None, iss |-> None, jti |-> None]

\* RouteError::into_response, and the Ok(Json(reply)) of the handler.  The
\* trace lists the storage and codec operations the request went through
\* (io_error: the last one failed), with the client they fetched and the
\* token they were given, if any.
RouteError(error, trace, client, token) ==
    [status |-> CASE error = "Internal" -> 500
                  [] error = "ClientNotFound" -> 401
                  [] error = "UnknownToken" -> 200
                  [] error = "NotAllowed" -> 401
                  [] error = "BadRequest" -> 400
                  [] error = "ClientCredentialsVerification" -> 401,
     error |-> error,
     body |-> IF error = "UnknownToken" THEN Some(INACTIVE) ELSE None,
     trace |-> trace, client |-> client, token |-> token]

JsonReply(reply, trace, client, token) ==
    [status |-> 200, error |-> NONE, body |-> Some(reply), trace |-> trace,
     client |-> client, token |-> token]

\* The lookup errors: not_found becomes UnknownToken, any other Internal.
LookupError(not_found, trace, client, token) ==
    RouteError(IF not_found THEN "UnknownToken" ELSE "Internal", trace, client, token)

\* The introspection endpoint from TokenType::check on: the outcome for a
\* token presented with an optional token_type_hint (NONE: no hint).
IntrospectToken(token, hint, fault, trace, client) ==
    LET token_type == TokenTypeCheck(token)
        checked == Append(trace, "check")
        looked_up == Append(checked, IF token_type = "AccessToken"
                                     THEN "lookup_active_access_token"
                                     ELSE "lookup_active_refresh_token")
        seen == Some([token |-> token, token_type_hint |-> hint])
    IN
    IF token_type = "TokenFormatError"
    THEN RouteError("UnknownToken", checked, client, seen)
    ELSE IF hint # NONE /\ token_type # hint
    THEN RouteError("UnknownToken", checked, client, seen)
    ELSE IF fault = "lookup"
    THEN LookupError(FALSE, Append(looked_up, "io_error"), client, seen)
    ELSE IF token_type = "AccessToken"
    THEN IF LookupActiveAccessToken(token) = {}
         THEN LookupError(TRUE, looked_up, client, seen)
         ELSE LET row == access_tokens[CHOOSE t \in LookupActiveAccessToken(token) : TRUE]
              IN  JsonReply(ActiveReply(row, "AccessToken",
                                        Some(row.created_at + row.expires_after)),
                            looked_up, client, seen)
    ELSE IF LookupActiveRefreshToken(token) = {}
         THEN LookupError(TRUE, looked_up, client, seen)
         ELSE LET row == refresh_tokens[CHOOSE t \in LookupActiveRefreshToken(token) : TRUE]
              IN  JsonReply(ActiveReply(row, "RefreshToken", None),
                            looked_up, client, seen)

\* The reply body of a request that reaches TokenType::check without a
\* storage failure.
Introspect(token, hint) == IntrospectToken(token, hint, "none", <<>>, None).body[1]

\* Whether the client's registration allows it to use the endpoint.
\* (ConfidentialMutant: public clients are let through.)
ConfidentialMutant(client) == TRUE

Confidential(client) == client.token_endpoint_auth_method \notin {NONE, "none"}

\* The handler with two steps exchanged: the form is required before the
\* credentials are verified.
IntrospectionOutcomeMutant(req, fault) ==
    IF fault = "acquire" THEN RouteError("Internal", <<"io_error">>, None, None)
    ELSE IF fault = "fetch" THEN RouteError("Internal", <<"fetch", "io_error">>, None, None)
    ELSE IF req.client = None THEN RouteError("ClientNotFound", <<"fetch">>, None, None)
    ELSE IF ~Confidential(req.client[1])
    THEN RouteError("NotAllowed", <<"fetch">>, req.client, None)
    ELSE IF req.form = None
    THEN RouteError("BadRequest", <<"fetch">>, req.client, None)
    ELSE IF ~req.credentials_verify
    THEN RouteError("ClientCredentialsVerification", <<"fetch", "verify">>, req.client, None)
    ELSE IntrospectToken(req.form[1].token, req.form[1].token_type_hint, fault,
                         <<"fetch", "verify">>, req.client)

\* POST /oauth2/introspect.  The request carries the client the credentials
\* fetch (None: no such client), whether the credentials verify against it,
\* and the form, if any.
IntrospectionOutcome(req, fault) ==
    IF fault = "acquire" THEN RouteError("Internal", <<"io_error">>, None, None)
    ELSE IF fault = "fetch" THEN RouteError("Internal", <<"fetch", "io_error">>, None, None)
    ELSE IF req.client = None THEN RouteError("ClientNotFound", <<"fetch">>, None, None)
    ELSE IF ~Confidential(req.client[1])
    THEN RouteError("NotAllowed", <<"fetch">>, req.client, None)
    ELSE IF ~req.credentials_verify
    THEN RouteError("ClientCredentialsVerification", <<"fetch", "verify">>, req.client, None)
    ELSE IF req.form = None
    THEN RouteError("BadRequest", <<"fetch", "verify">>, req.client, None)
    ELSE IntrospectToken(req.form[1].token, req.form[1].token_type_hint, fault,
                         <<"fetch", "verify">>, req.client)

\* The cleanup sweep: Pending grants older than the grant lifetime are cancelled.
ExpiredGrantsMutant(ttl) ==
    {g \in DOMAIN grants :
        /\ grants[g].fulfilled_at = NULL
        /\ grants[g].cancelled_at = NULL
        /\ grants[g].created_at + ttl <= now}

ExpiredGrants(ttl) ==
    {g \in DOMAIN grants :
        /\ grants[g].fulfilled_at = NULL
        /\ grants[g].cancelled_at = NULL
        /\ grants[g].created_at + ttl < now}

CancelGrants(expired) ==
    [g \in DOMAIN grants |->
        IF g \in expired THEN [grants[g] EXCEPT !.cancelled_at = now] ELSE grants[g]]

CleanupExpired ==
    /\ ExpiredGrants(GrantTtl) # {}
    /\ grants' = CancelGrants(ExpiredGrants(GrantTtl))
    /\ UNCHANGED <<now, user_sessions, authentications, oauth2_sessions,
                   access_tokens, refresh_tokens, consents, response,
                   lookup, loaded, webvars>>

Init ==
    /\ InitTables
    /\ consents \in [Users \X Clients -> EarlierConsents]
    /\ lookup = IdleRow
    /\ loaded = NotLoaded

Next ==
    \/ Authorize
    \/ CompleteGet
    \/ ConsentPost
    \/ TokenExchange
    \/ CleanupExpired
    \/ Register
    \/ Login
    \/ Reauth
    \/ Logout
    \/ Tick

Spec == Init /\ [][Next]_vars

----------------------------------------------------------------------------
(* Concurrent requests. Each request task reads in one step (the SELECT of *)
(* its handler) and writes and commits in a later one; between the two,    *)
(* other tasks run. Neither lookup takes a row lock (plain SELECT), so a   *)
(* task writes on the strength of what it read.                            *)

\* Bounds on the rows concurrent requests may add.
MaxConcSessions == 3
MaxConcTokens == 3

\* The grant the concurrent requests are about: Pending, with a code.
ConcGrantInputs ==
    {[NewGrantRow("web", {OPENID}, Some("code1"), None, None, FALSE, rt_token, FALSE)
         EXCEPT !.created_at = 0] : rt_token \in BOOLEAN}

\* A logged-in user who consented to the client, and one Pending grant.
InitConc ==
    /\ now = 0
    /\ grants \in {<<row>> : row \in ConcGrantInputs}
    /\ user_sessions = <<[user |-> "alice", created_at |-> 0, finished_at |-> NULL]>>
    /\ authentications = <<[session_id |-> 1, created_at |-> 0]>>
    /\ oauth2_sessions = <<>>
    /\ access_tokens = <<>>
    /\ refresh_tokens = <<>>
    /\ consents = [uc \in Users \X Clients |-> {OPENID}]
    /\ response = NoResponse
    /\ lookup = IdleRow
    /\ loaded = NotLoaded
    /\ inflight = [p \in Requests |-> Idle]
    /\ jar = None
    /\ rendered = {}
    /\ introspection = NotIntrospected
    /\ next_sweep = 0

\* get() up to the call of complete(): load_session, get_grant_by_id.
CompleteBegin(p) ==
    \E grant_id \in DOMAIN grants, cookie \in DOMAIN user_sessions :
        \E grant \in GetGrantById(Db, grant_id) :
            /\ inflight[p].op \in {"idle", "done"}
            /\ Len(oauth2_sessions) < MaxConcSessions
            /\ grant.ok
            /\ LoadSession(cookie) # None
            /\ inflight' = [inflight EXCEPT ![p] =
                    [op |-> "complete", grant_id |-> grant_id, grant |-> grant,
                     session |-> LoadSession(cookie)[1]]]
            /\ UNCHANGED <<now, dbvars, response, lookup, loaded, jar, rendered, introspection, next_sweep>>

\* complete() on the grant read earlier, then the answer of get().
CompleteFinish(p) ==
    /\ inflight[p].op = "complete"
    /\ LET r == Complete(inflight[p].grant, inflight[p].session, Db, "none") IN
        /\ response' = CompletionResponse(inflight[p].grant_id, r, "none")
        /\ IF r.committed THEN Commit(r.txn) ELSE Rollback
    /\ inflight' = [inflight EXCEPT ![p] = [op |-> "done"]]
    /\ UNCHANGED <<now, user_sessions, authentications, lookup, loaded, jar, rendered, introspection, next_sweep>>

\* The token endpoint up to the end of lookup_grant_by_code.
TokenBegin(p) ==
    \E code \in Codes :
        \E grant \in LookupGrantByCode(Db, code) :
            /\ inflight[p].op \in {"idle", "done"}
            /\ Len(access_tokens) < MaxConcTokens
            /\ inflight' = [inflight EXCEPT ![p] = [op |-> "token", grant |-> grant]]
            /\ UNCHANGED <<now, dbvars, response, lookup, loaded, jar, rendered, introspection, next_sweep>>

\* The token endpoint after the lookup, on the grant read earlier.
TokenFinish(p) ==
    /\ inflight[p].op = "token"
    /\ TokenAnswer(inflight[p].grant)
    /\ inflight' = [inflight EXCEPT ![p] = [op |-> "done"]]
    /\ UNCHANGED <<now, user_sessions, authentications, lookup, loaded, jar, rendered, introspection, next_sweep>>

NextConc ==
    \E p \in Requests :
        \/ CompleteBegin(p)
        \/ CompleteFinish(p)
        \/ TokenBegin(p)
        \/ TokenFinish(p)

SpecConc == InitConc /\ [][NextConc]_vars

----------------------------------------------------------------------------
(* The token ledger: refresh-token rotation after a code exchange.         *)

MaxRefreshTokens == 3

\* A refresh token and its successors via next_refresh_token_id.
RECURSIVE ChainFrom(_, _)
ChainFrom(rts, t) ==
    IF rts[t].next_refresh_token_id = NULL THEN {t}
    ELSE {t} \cup ChainFrom(rts, rts[t].next_refresh_token_id)

\* (RevokeChainMutant: the replay is refused but nothing is revoked.)
RevokeChainMutant(txn, t) == txn

\* Replay of a consumed refresh token: the whole chain is revoked.
RevokeChain(txn, t) ==
    LET chain == ChainFrom(txn.refresh_tokens, t)
        revoked == {txn.refresh_tokens[u].access_token_id : u \in chain}
    IN  [txn EXCEPT
            !.refresh_tokens =
                [u \in DOMAIN @ |->
                    IF u \in chain /\ @[u].consumed_at = NULL
                    THEN [@[u] EXCEPT !.consumed_at = now] ELSE @[u]],
            !.access_tokens =
                [a \in DOMAIN @ |->
                    IF a \in revoked /\ @[a].revoked_at = NULL
                    THEN [@[a] EXCEPT !.revoked_at = now] ELSE @[a]]]

\* A successful rotation: the old pair is retired, a new pair is issued and
\* chained to the old refresh token, all in one transaction.
Rotate(txn, t) ==
    LET old == txn.refresh_tokens[t]
        txn1 == [txn EXCEPT
                    !.refresh_tokens[t].consumed_at = now,
                    !.refresh_tokens[t].next_refresh_token_id = Len(txn.refresh_tokens) + 1,
                    !.access_tokens[old.access_token_id].revoked_at =
                        IF @ = NULL THEN now ELSE @]
    IN  IssueTokens(txn1, old.oauth2_session_id, DefaultParams, "none")

\* POST /oauth2/token, grant_type=refresh_token.
RefreshPost(token) ==
    LET rows == {t \in DOMAIN refresh_tokens : refresh_tokens[t].token = token} IN
    /\ IF TokenTypeCheck(token) # "RefreshToken" \/ rows = {}
       THEN /\ response' = ErrorResponse(400)
            /\ Rollback
       ELSE LET t == CHOOSE t \in rows : TRUE
                r == Rotate(Db, t)
            IN  IF refresh_tokens[t].consumed_at # NULL
                THEN /\ Commit(RevokeChain(Db, t))
                     /\ response' = ErrorResponse(400)
                ELSE IF oauth2_sessions[refresh_tokens[t].oauth2_session_id].finished_at # NULL
                THEN /\ response' = ErrorResponse(400)
                     /\ Rollback
                ELSE /\ Len(refresh_tokens) < MaxRefreshTokens
                     /\ Commit(r.txn)
                     /\ response' = [NoResponse EXCEPT
                            !.kind = "token", !.status = 200,
                            !.access_token = r.params.access_token,
                            !.refresh_token = r.params.refresh_token,
                            !.expires_in = r.params.expires_in]
    /\ UNCHANGED <<now, user_sessions, authentications, lookup, loaded, webvars>>

\* The token strings a client may present: every token issued so far.
PresentedTokens ==
    {access_tokens[t].token : t \in DOMAIN access_tokens}
        \cup {refresh_tokens[t].token : t \in DOMAIN refresh_tokens}

Refresh == \E token \in PresentedTokens : RefreshPost(token)

\* A logged-in user whose grant (code flow) has been fulfilled.
InitLedger ==
    /\ now = 0
    /\ grants \in {<<[row EXCEPT !.fulfilled_at = 0, !.oauth2_session_id = 1]>> :
                       row \in {r \in ConcGrantInputs : ~r.response_type_token}}
    /\ user_sessions = <<[user |-> "alice", created_at |-> 0, finished_at |-> NULL]>>
    /\ authentications = <<[session_id |-> 1, created_at |-> 0]>>
    /\ oauth2_sessions = <<[user_session_id |-> 1, client_id |-> "web",
                            scope |-> {OPENID}, created_at |-> 0,
                            finished_at |-> NULL]>>
    /\ access_tokens = <<>>
    /\ refresh_tokens = <<>>
    /\ consents = [uc \in Users \X Clients |-> {OPENID}]
    /\ response = NoResponse
    /\ lookup = IdleRow
    /\ loaded = NotLoaded
    /\ inflight = [p \in Requests |-> Idle]
    /\ jar = None
    /\ rendered = {}
    /\ introspection = NotIntrospected
    /\ next_sweep = 0

NextLedger ==
    \/ TokenExchange
    \/ Refresh
    \/ Tick

SpecLedger == InitLedger /\ [][NextLedger]_vars

----------------------------------------------------------------------------
(* The introspection endpoint over the token ledger.                       *)

MaxIntrospectTokens == 2

ClientMethodInputs == {NONE, "none", "client_secret_basic"}

\* What credentials.fetch returns: no client, or the client registered.
ClientInputs ==
    {None} \cup {Some([client_id |-> "rs", token_endpoint_auth_method |-> m]) :
                    m \in ClientMethodInputs}

\* Token strings nobody was issued: a well-formed one of each type, one
\* with an unknown prefix and one with a wrong checksum.
ForeignTokens ==
    {TokenGenerate("AccessToken", 0), TokenGenerate("RefreshToken", 0),
     [prefix |-> "syt", random |-> 1, crc |-> Checksum("syt", 1)],
     [TokenGenerate("AccessToken", 1) EXCEPT !.crc = (@ + 1) % CrcModulus]}

HintInputs == {NONE, "AccessToken", "RefreshToken"}

IntrospectionForms ==
    {None} \cup {Some([token |-> t, token_type_hint |-> h]) :
                    t \in PresentedTokens \cup ForeignTokens, h \in HintInputs}

IntrospectionRequests ==
    [client : ClientInputs, credentials_verify : BOOLEAN, form : IntrospectionForms]

IntrospectionFaults == {"none", "acquire", "fetch", "lookup"}

\* The outcome is recorded together with two facts of the request the
\* handler evaluates on its way: whether the credentials verify and whether
\* a form was sent.
IntrospectionPost(req, fault) ==
    /\ introspection' = IntrospectionOutcome(req, fault)
                            @@ [credentials_verify |-> req.credentials_verify,
                                form |-> req.form # None]
    /\ UNCHANGED <<now, dbvars, response, lookup, loaded, inflight, jar, rendered, next_sweep>>

\* A refresh request that would rotate: the token is a refresh token not
\* consumed, of a session not finished.
Rotates(token) == LookupActiveRefreshToken(token) # {}

NextIntrospect ==
    \/ TokenExchange
    \/ \E token \in PresentedTokens :
            /\ Rotates(token) => Len(refresh_tokens) < MaxIntrospectTokens
            /\ RefreshPost(token)
    \/ Tick
    \/ \E req \in IntrospectionRequests, fault \in IntrospectionFaults :
            IntrospectionPost(req, fault)

SpecIntrospect == InitLedger /\ [][NextIntrospect]_vars

----------------------------------------------------------------------------
(* Authorization codes: insertions of grants and lookups by code.          *)

MaxCodeGrants == 3
CodeInputs == {"code1", "code2"}

\* new_authorization_grant with the code the caller generated (None: the
\* response type has no code); the INSERT fails on a code already stored.
InsertGrant(scope, code) ==
    /\ Len(grants) < MaxCodeGrants
    /\ IF code # None /\ CodeInUse(code[1])
       THEN /\ response' = ErrorResponse(500)
            /\ UNCHANGED grants
       ELSE /\ grants' = Append(grants,
                    NewGrantRow("web", scope, code, None, None, FALSE, code = None, FALSE))
            /\ response' = Redirect("authorize", Len(grants) + 1)
    /\ UNCHANGED <<now, user_sessions, authentications, oauth2_sessions,
                   access_tokens, refresh_tokens, consents, lookup, loaded, webvars>>

NewAuthorizationGrant ==
    \E scope \in ScopeInputs, code \in {None} \cup {Some(c) : c \in CodeInputs} :
        InsertGrant(scope, code)

\* lookup_grant_by_code for a presented code; the outcome is kept in loaded.
LookupByCode ==
    \E code \in CodeInputs :
        /\ loaded' \in LookupGrantByCode(Db, code)
        /\ loaded' # loaded
        /\ UNCHANGED <<now, dbvars, response, lookup, webvars>>

InitCodes ==
    /\ InitDb
    /\ lookup = IdleRow
    /\ loaded = NotLoaded

NextCodes ==
    \/ NewAuthorizationGrant
    \/ LookupByCode

SpecCodes == InitCodes /\ [][NextCodes]_vars

----------------------------------------------------------------------------
(* The CSRF protocol: the csrf cookie of the jar and the protected forms.  *)
(* A secret is a sequence of SecretLen bytes; a form value is a sequence   *)
(* of characters, each the index (0..63) of a letter of the base64url      *)
(* alphabet, or NotInAlphabet for any other character.                     *)

SecretLen == 2
MaxCsrfAuths == 2
MaxCsrfTicks == 3
CsrfTickLength == 30

\* Duration::hours(1), in minutes.
CsrfTtl == 60

NotInAlphabet == 64

\* Bit k (1 = most significant of the first byte) of a byte sequence,
\* 0 past its end.
BitOf(bytes, k) ==
    IF k > 8 * Len(bytes) THEN 0
    ELSE (bytes[((k - 1) \div 8) + 1] \div (2 ^ (7 - ((k - 1) % 8)))) % 2

\* Bit k of a sequence of alphabet letters (six bits each).
SextetBitOf(chars, k) ==
    (chars[((k - 1) \div 6) + 1] \div (2 ^ (5 - ((k - 1) % 6)))) % 2

\* BASE64URL_NOPAD.encode
Base64UrlEncode(bytes) ==
    [j \in 1..((8 * Len(bytes) + 5) \div 6) |->
        32 * BitOf(bytes, 6 * j - 5) + 16 * BitOf(bytes, 6 * j - 4)
        + 8 * BitOf(bytes, 6 * j - 3) + 4 * BitOf(bytes, 6 * j - 2)
        + 2 * BitOf(bytes, 6 * j - 1) + BitOf(bytes, 6 * j)]

DecodeError == [ok |-> FALSE, error |-> "Decode"]

\* BASE64URL_NOPAD.decode: fails on a character outside the alphabet, on a
\* length no encoding has, and on trailing bits that are not zero.
Base64UrlDecode(chars) ==
    LET n == (6 * Len(chars)) \div 8 IN
    IF \E i \in DOMAIN chars : chars[i] \notin 0..63 THEN DecodeError
    ELSE IF Len(chars) % 4 = 1 THEN DecodeError
    ELSE IF \E k \in (8 * n + 1)..(6 * Len(chars)) : SextetBitOf(chars, k) # 0
    THEN DecodeError
    ELSE [ok |-> TRUE,
          value |-> [i \in 1..n |->
                128 * SextetBitOf(chars, 8 * i - 7) + 64 * SextetBitOf(chars, 8 * i - 6)
                + 32 * SextetBitOf(chars, 8 * i - 5) + 16 * SextetBitOf(chars, 8 * i - 4)
                + 8 * SextetBitOf(chars, 8 * i - 3) + 4 * SextetBitOf(chars, 8 * i - 2)
                + 2 * SextetBitOf(chars, 8 * i - 1) + SextetBitOf(chars, 8 * i)]]

\* CsrfToken::new
CsrfTokenNew(token, ttl) == [expiration |-> now + ttl, token |-> token]

\* CsrfToken::generate, the random secret being the caller's draw.
Generate(random, ttl) == CsrfTokenNew(random, ttl)

\* CsrfToken::refresh
\* (RefreshTokenMutant: a refresh draws a new secret.)
RefreshTokenMutant(self, ttl) == CsrfTokenNew([i \in 1..SecretLen |-> 255 - self.token[i]], ttl)

RefreshToken(self, ttl) == CsrfTokenNew(self.token, ttl)

\* CsrfToken::form_value
FormValue(self) == Base64UrlEncode(self.token)

\* CsrfToken::verify_form_value
VerifyFormValue(self, form_value) ==
    LET decoded == Base64UrlDecode(form_value) IN
    IF ~decoded.ok THEN decoded
    ELSE IF self.token = decoded.value THEN [ok |-> TRUE]
    ELSE [ok |-> FALSE, error |-> "Mismatch"]

\* CsrfToken::verify_expiration
\* (VerifyExpirationMutant: a token is accepted at its expiration time.)
VerifyExpirationMutant(self) ==
    IF now <= self.expiration THEN [ok |-> TRUE, value |-> self]
    ELSE [ok |-> FALSE, error |-> "Expired"]

VerifyExpiration(self) ==
    IF now < self.expiration THEN [ok |-> TRUE, value |-> self]
    ELSE [ok |-> FALSE, error |-> "Expired"]

\* A csrf cookie whose value does not decode to a token, as Cookie::new("csrf", "").
Undecodable == [decodable |-> FALSE, path |-> NONE, http_only |-> FALSE]

\* jar.get("csrf").unwrap_or_else(|| Cookie::new("csrf", "")), then
\* cookie.set_path("/") and cookie.set_http_only(true).
\* (CsrfCookieMutant: the attributes are left as they came.)
CsrfCookieMutant(cookie_jar) ==
    IF cookie_jar = None THEN Undecodable ELSE cookie_jar[1]

CsrfCookie(cookie_jar) ==
    [(IF cookie_jar = None THEN Undecodable ELSE cookie_jar[1])
        EXCEPT !.path = "/", !.http_only = TRUE]

\* cookie.encode(&token): the token serialised, the expiration in seconds.
CookieEncode(cookie, token) ==
    [decodable |-> TRUE, expiration |-> token.expiration, token |-> token.token,
     path |-> cookie.path, http_only |-> cookie.http_only]

\* cookie.decode()
CookieDecode(cookie) ==
    IF cookie.decodable
    THEN [ok |-> TRUE, value |-> [expiration |-> cookie.expiration, token |-> cookie.token]]
    ELSE [ok |-> FALSE, error |-> "DecodeCookie"]

\* CsrfExt::csrf_token: the token to render, to be written back to the jar.
\* (CsrfTokenOfMutant: the token of the cookie is kept without a look at
\* its expiration.)
CsrfTokenOfMutant(cookie_jar, random) ==
    LET cookie == IF cookie_jar = None THEN Undecodable ELSE cookie_jar[1]
        decoded == CookieDecode(cookie)
    IN  RefreshToken(IF decoded.ok THEN decoded.value ELSE Generate(random, CsrfTtl), CsrfTtl)

CsrfTokenOf(cookie_jar, random) ==
    LET cookie == IF cookie_jar = None THEN Undecodable ELSE cookie_jar[1]
        decoded == CookieDecode(cookie)
        kept == IF decoded.ok THEN VerifyExpiration(decoded.value) ELSE decoded
    IN  RefreshToken(IF kept.ok THEN kept.value ELSE Generate(random, CsrfTtl), CsrfTtl)

\* CsrfExt::verify_form
\* (VerifyFormMutant: the form value is compared before the expiration is
\* looked at.)
VerifyFormMutant(cookie_jar, form) ==
    IF cookie_jar = None THEN [ok |-> FALSE, error |-> "Missing"]
    ELSE LET decoded == CookieDecode(cookie_jar[1]) IN
         IF ~decoded.ok THEN decoded
         ELSE LET matched == VerifyFormValue(decoded.value, form.csrf) IN
              IF ~matched.ok THEN matched
              ELSE LET token == VerifyExpiration(decoded.value) IN
                   IF ~token.ok THEN token
                   ELSE [ok |-> TRUE, value |-> form.inner]

VerifyForm(cookie_jar, form) ==
    IF cookie_jar = None THEN [ok |-> FALSE, error |-> "Missing"]
    ELSE LET decoded == CookieDecode(cookie_jar[1]) IN
         IF ~decoded.ok THEN decoded
         ELSE LET token == VerifyExpiration(decoded.value) IN
              IF ~token.ok THEN token
              ELSE LET matched == VerifyFormValue(token.value, form.csrf) IN
                   IF ~matched.ok THEN matched
                   ELSE [ok |-> TRUE, value |-> form.inner]

SecretInputs == {[i \in 1..SecretLen |-> i], [i \in 1..SecretLen |-> 255 - i]}

\* The csrf fields a browser or an attacker may post: each secret's form
\* value, and each of them extended, shortened, with a letter changed, with
\* a character outside the alphabet, and the empty field.
CsrfFieldInputs ==
    LET values == {Base64UrlEncode(secret) : secret \in SecretInputs} IN
    values
    \cup {Append(v, 0) : v \in values}
    \cup {SubSeq(v, 1, Len(v) - 1) : v \in values}
    \cup {[v EXCEPT ![Len(v)] = (@ + 1) % 64] : v \in values}
    \cup {[v EXCEPT ![1] = NotInAlphabet] : v \in values}
    \cup {<<>>}

PasswordInputs == {"right", "wrong"}

FormInputs == [csrf : CsrfFieldInputs, inner : [password : PasswordInputs]]

\* Whether csrf_token finds a token to keep in the jar.
KeepsToken(cookie_jar) ==
    /\ cookie_jar # None
    /\ CookieDecode(cookie_jar[1]).ok
    /\ VerifyExpiration(CookieDecode(cookie_jar[1]).value).ok

\* FancyError: the error page, with the status of the error's kind.
CsrfFailureStatus == 400
InternalErrorStatus == 500

FancyError(error) ==
    [NoResponse EXCEPT !.kind = error,
        !.status = IF error \in {"Missing", "DecodeCookie", "Expired", "Decode", "Mismatch"}
                   THEN CsrfFailureStatus ELSE InternalErrorStatus]

\* The post_auth_action of the query: none, or the grant to continue.
PostAuthActions == {NULL, 1}

\* query.go_next(), sent with the jar in which set_session(&session) put
\* the session cookie.
\* (GoNextMutant: the continuation is dropped.)
GoNextMutant(action, session) ==
    [Redirect("next", NULL) EXCEPT !.session_cookie = session[1].data]

GoNext(action, session) ==
    [Redirect("next", action) EXCEPT !.session_cookie = session[1].data]

\* templates.render_reauth: the page with the reauth form.
ReauthPage == [NoResponse EXCEPT !.kind = "reauth_form", !.status = 200]

\* GET /reauth
ReauthGet(cookie, random, action) ==
    LET csrf_token == CsrfTokenOf(jar, random)
        session == LoadSession(cookie)
        outstanding == IF KeepsToken(jar) THEN rendered ELSE {}
    IN  /\ jar' = Some(CookieEncode(CsrfCookie(jar), csrf_token))
        /\ IF session = None
           THEN /\ response' = Redirect("login", action)
                /\ rendered' = outstanding
           ELSE /\ response' = ReauthPage
                /\ rendered' = outstanding \cup {[value |-> FormValue(csrf_token), at |-> now]}
        /\ UNCHANGED <<now, dbvars, lookup, loaded, inflight, introspection, next_sweep>>

\* POST /reauth
\* (ReauthPostMutant: the form is not verified against the csrf cookie.)
ReauthPostMutant(cookie, form, action) ==
    LET session == LoadSession(cookie)
    IN  /\ Len(authentications) < MaxCsrfAuths
        /\ IF session = None
           THEN /\ response' = Redirect("login", action)
                /\ UNCHANGED authentications
           ELSE IF form.inner.password # "right"
           THEN /\ response' = FancyError("Authentication")
                /\ UNCHANGED authentications
           ELSE /\ authentications' = Append(authentications,
                        [session_id |-> session[1].data, created_at |-> now])
                /\ response' = GoNext(action, session)
        /\ UNCHANGED <<now, grants, user_sessions, oauth2_sessions, access_tokens,
                       refresh_tokens, consents, lookup, loaded, webvars>>

ReauthPost(cookie, form, action) ==
    LET verified == VerifyForm(jar, form)
        session == LoadSession(cookie)
    IN  /\ Len(authentications) < MaxCsrfAuths
        /\ IF ~verified.ok
           THEN /\ response' = FancyError(verified.error)
                /\ UNCHANGED authentications
           ELSE IF session = None
           THEN /\ response' = Redirect("login", action)
                /\ UNCHANGED authentications
           ELSE IF verified.value.password # "right"
           THEN /\ response' = FancyError("Authentication")
                /\ UNCHANGED authentications
           ELSE /\ authentications' = Append(authentications,
                        [session_id |-> session[1].data, created_at |-> now])
                /\ response' = GoNext(action, session)
        /\ UNCHANGED <<now, grants, user_sessions, oauth2_sessions, access_tokens,
                       refresh_tokens, consents, lookup, loaded, webvars>>

\* The browser loses its csrf cookie, or presents one that does not decrypt.
CookieLost ==
    \E cookie_jar \in {None, Some(Undecodable)} :
        /\ jar # cookie_jar
        /\ jar' = cookie_jar
        /\ UNCHANGED <<now, dbvars, response, lookup, loaded, inflight, rendered, introspection, next_sweep>>

CsrfTick ==
    /\ now + CsrfTickLength <= MaxCsrfTicks * CsrfTickLength
    /\ now' = now + CsrfTickLength
    /\ UNCHANGED <<dbvars, response, lookup, loaded, webvars>>

InitCsrf ==
    /\ InitDb
    /\ lookup = IdleRow
    /\ loaded = NotLoaded

NextCsrf ==
    \/ \E cookie \in 1..MaxUserSessions, random \in SecretInputs, action \in PostAuthActions :
            ReauthGet(cookie, random, action)
    \/ \E cookie \in 1..MaxUserSessions, form \in FormInputs, action \in PostAuthActions :
            ReauthPost(cookie, form, action)
    \/ Login
    \/ Logout
    \/ CookieLost
    \/ CsrfTick

SpecCsrf == InitCsrf /\ [][NextCsrf]_vars

----------------------------------------------------------------------------
(* Loading a fulfilled grant while its browser session re-authenticates.   *)

MaxLookupAuths == 3

\* POST /reauth past the CSRF check, with the right password.
Reauthenticate ==
    \E cookie \in 1..MaxUserSessions :
        /\ LoadSession(cookie) # None
        /\ Len(authentications) < MaxLookupAuths
        /\ authentications' = Append(authentications,
                [session_id |-> cookie, created_at |-> now])
        /\ response' = GoNext(NULL, LoadSession(cookie))
        /\ UNCHANGED <<now, grants, user_sessions, oauth2_sessions, access_tokens,
                       refresh_tokens, consents, lookup, loaded, webvars>>

\* get_grant_by_id for a presented id; the outcome is kept in loaded.
LoadGrant ==
    \E id \in 1..(MaxGrants + 1) :
        /\ loaded' \in GetGrantById(Db, id)
        /\ loaded' # loaded
        /\ UNCHANGED <<now, dbvars, response, lookup, webvars>>

NextLookup ==
    \/ TokenExchange
    \/ Reauthenticate
    \/ Tick
    \/ LoadGrant

SpecLookup == InitLedger /\ [][NextLookup]_vars

----------------------------------------------------------------------------
(* The task scheduler of the server. ServerCommand::run registers the      *)
(* cleanup task to recur every 15 seconds and starts the queue before it    *)
(* serves requests. Here the clock counts seconds.                          *)

MaxSweepTicks == 5
SweepTickLength == 150

\* queue.recuring(Duration::from_secs(15), tasks::cleanup_expired(&pool))
CleanupInterval == 15

\* The grant lifetime of the sweep, in seconds.
GrantTtlSeconds == 60 * GrantTtl

\* One run of the recurring task: due from server start, and again one
\* interval after each run.
SweepRun ==
    /\ next_sweep <= now
    /\ grants' = CancelGrants(ExpiredGrants(GrantTtlSeconds))
    /\ next_sweep' = now + CleanupInterval
    /\ UNCHANGED <<now, user_sessions, authentications, oauth2_sessions,
                   access_tokens, refresh_tokens, consents, response,
                   lookup, loaded, inflight, jar, rendered, introspection>>

SweepTick ==
    /\ now + SweepTickLength <= MaxSweepTicks * SweepTickLength
    /\ now' = now + SweepTickLength
    /\ UNCHANGED <<dbvars, response, lookup, loaded, webvars>>

InitSweep ==
    /\ InitDb
    /\ lookup = IdleRow
    /\ loaded = NotLoaded

NextSweep ==
    \/ Authorize
    \/ Login
    \/ CompleteGet
    \/ SweepRun
    \/ SweepTick

\* queue.start(): the scheduler runs the task whenever it is due.
SpecSweep == InitSweep /\ [][NextSweep]_vars /\ WF_vars(SweepRun)

----------------------------------------------------------------------------
(* Storing a grant and loading it back: new_authorization_grant followed   *)
(* by get_grant_by_id, with every request parameter and the text form of   *)
(* the columns that hold a Url, a Scope or a ResponseMode.                 *)

MaxStoredGrants == 1

\* Url::to_string / str::parse::<Url>: the serialization and its parser.
UrlToString(url) == <<url.scheme, "://", url.host, url.path>>

\* Url::parse normalises what it reads: the scheme is lowercased and the
\* default port of the scheme is dropped from the authority.
AsciiLowercase(scheme) == IF scheme \in {"HTTPS", "Https"} THEN "https" ELSE scheme

WithoutDefaultPort(scheme, authority) ==
    IF scheme = "https" /\ authority = "app.example:443" THEN "app.example" ELSE authority

UrlParse(text) ==
    IF Len(text) = 4 /\ text[1] # "" /\ text[2] = "://"
    THEN LET scheme == AsciiLowercase(text[1]) IN
         [ok |-> TRUE,
          value |-> [scheme |-> scheme, host |-> WithoutDefaultPort(scheme, text[3]),
                     path |-> text[4]]]
    ELSE [ok |-> FALSE, value |-> None]

\* ResponseMode::to_string / str::parse::<ResponseMode>
ResponseModeToString(response_mode) ==
    CASE response_mode = "Query" -> "query"
      [] response_mode = "Fragment" -> "fragment"
      [] response_mode = "FormPost" -> "form_post"

ResponseModeParse(text) ==
    CASE text = "query" -> [ok |-> TRUE, value |-> "Query"]
      [] text = "fragment" -> [ok |-> TRUE, value |-> "Fragment"]
      [] text = "form_post" -> [ok |-> TRUE, value |-> "FormPost"]
      [] OTHER -> [ok |-> FALSE, value |-> NONE]

\* Scope::to_string: the tokens in some order, joined by spaces;
\* str::parse::<Scope>: the set of the tokens between the spaces.
ScopeToString(scope) ==
    CHOOSE text \in [1..Cardinality(scope) -> scope] : {text[i] : i \in DOMAIN text} = scope

ScopeParse(text) ==
    IF Len(text) = 0 THEN [ok |-> FALSE, value |-> {}]
    ELSE [ok |-> TRUE, value |-> {text[i] : i \in DOMAIN text}]

UrlInputs ==
    {[scheme |-> "https", host |-> "client.example", path |-> "/cb"],
     [scheme |-> "https", host |-> "client.example", path |-> "/"]}

ResponseModes == {"Query", "Fragment", "FormPost"}

PkceInputs ==
    {None, Some([challenge_method |-> "plain", challenge |-> "challenge"]),
           Some([challenge_method |-> "S256", challenge |-> "challenge"])}

CodeParams == {None} \cup {Some([code |-> "code1", pkce |-> pkce]) : pkce \in PkceInputs}

\* max_age: Option<NonZeroU32>: absent, 1, 10, i32::MAX, i32::MAX + 1, u32::MAX.
MaxAgeParams ==
    {None, NonZeroU32(1), NonZeroU32(10), NonZeroU32(I32Max),
     Some([hi |-> HalfWord \div 2, lo |-> 0]),
     Some([hi |-> HalfWord - 1, lo |-> HalfWord - 1])}

\* The requests drawn: state, nonce and acr_values all absent or all given.
GrantParamsWith(state, nonce, acr_values) ==
    [client_id : Clients, redirect_uri : UrlInputs, scope : ScopeInputs,
     code : CodeParams, state : {state}, nonce : {nonce},
     max_age : MaxAgeParams, acr_values : {acr_values},
     response_mode : ResponseModes,
     response_type_token : BOOLEAN, response_type_id_token : {FALSE}]

GrantParams ==
    GrantParamsWith(NONE, NONE, NONE) \cup GrantParamsWith("state1", "nonce1", "acr1")

\* The row new_authorization_grant inserts.
InsertedRow(p) ==
    [NewGrantRow(p.client_id, p.scope,
                 IF p.code = None THEN None ELSE Some(p.code[1].code),
                 IF p.code = None THEN None ELSE p.code[1].pkce,
                 p.max_age, FALSE, p.response_type_token, p.response_type_id_token)
        EXCEPT !.scope = ScopeToString(p.scope)]
    @@ [redirect_uri |-> UrlToString(p.redirect_uri),
        state |-> p.state,
        nonce |-> p.nonce,
        acr_values |-> p.acr_values,
        response_mode |-> ResponseModeToString(p.response_mode)]

\* The AuthorizationGrant new_authorization_grant returns for row id.
CreatedGrant(p, id) ==
    [data |-> id,
     stage |-> "Pending",
     code |-> p.code,
     redirect_uri |-> p.redirect_uri,
     client |-> p.client_id,
     scope |-> p.scope,
     state |-> p.state,
     nonce |-> p.nonce,
     max_age |-> p.max_age,
     acr_values |-> p.acr_values,
     response_mode |-> p.response_mode,
     created_at |-> now,
     response_type_token |-> p.response_type_token,
     response_type_id_token |-> p.response_type_id_token]

\* The GrantLookup row of the stored row og with id: the query's columns.
GrantLookupRow(txn, id) ==
    LET og == txn.grants[id] IN
    {row @@ [grant_redirect_uri |-> og.redirect_uri,
             grant_state |-> og.state,
             grant_nonce |-> og.nonce,
             grant_acr_values |-> og.acr_values,
             grant_response_mode |-> og.response_mode] : row \in JoinRows(txn, id)}

\* try_into with the parses of scope, redirect_uri and response_mode.
TryIntoGrant(row) ==
    LET scope == ScopeParse(row.grant_scope)
        redirect_uri == UrlParse(row.grant_redirect_uri)
        response_mode == ResponseModeParse(row.grant_response_mode)
        grant == TryInto([row EXCEPT !.grant_scope = scope.value])
    IN  IF ~scope.ok THEN DatabaseInconsistencyError
        ELSE IF ~grant.ok THEN grant
        ELSE IF ~redirect_uri.ok \/ ~response_mode.ok THEN DatabaseInconsistencyError
        ELSE grant @@ [acr_values |-> row.grant_acr_values,
                       state |-> row.grant_state,
                       nonce |-> row.grant_nonce,
                       response_mode |-> response_mode.value,
                       redirect_uri |-> redirect_uri.value]

\* new_authorization_grant(p), then get_grant_by_id of the new row.
StoreAndLoad(p) ==
    /\ Len(grants) < MaxStoredGrants
    /\ grants' = Append(grants, InsertedRow(p))
    /\ loaded' \in {TryIntoGrant(row) :
                        row \in GrantLookupRow([Db EXCEPT !.grants = grants'], Len(grants) + 1)}
    /\ UNCHANGED <<now, user_sessions, authentications, oauth2_sessions,
                   access_tokens, refresh_tokens, consents, response, lookup, webvars>>

NextStore ==
    \/ \E p \in GrantParams : StoreAndLoad(p)
    \/ Tick

SpecStore == InitSweep /\ [][NextStore]_vars

----------------------------------------------------------------------------
(* complete() called with a grant that carries its max_age, as the grant   *)
(* new_authorization_grant returns does.                                   *)

CompleteCall(grant_id, cookie, fault) ==
    LET txn == Db
        maybe_session == LoadSession(cookie)
    IN  /\ maybe_session # None
        /\ grant_id \in DOMAIN grants
        /\ \E loaded_grant \in GetGrantById(txn, grant_id) :
              /\ loaded_grant.ok
              /\ LET grant == [loaded_grant EXCEPT !.max_age = grants[grant_id].max_age]
                     r == Complete(grant, maybe_session[1], txn, fault)
                 IN  /\ response' = CompletionResponse(grant_id, r, fault)
                     /\ IF r.committed THEN Commit(r.txn) ELSE Rollback
        /\ UNCHANGED <<now, user_sessions, authentications, lookup, loaded, webvars>>

CompleteGrant ==
    \E grant_id \in 1..MaxGrants, cookie \in 1..MaxUserSessions,
       fault \in Faults \ {"render"} :
        CompleteCall(grant_id, cookie, fault)

NextComplete ==
    \/ Authorize
    \/ Register
    \/ Login
    \/ Tick
    \/ CleanupExpired
    \/ CompleteGrant

SpecComplete == Init /\ [][NextComplete]_vars


----------------------------------------------------------------------------
(* The browser error middleware in front of the authorization endpoint.    *)
(* The request in flight is kept in inflight, the answer in response.      *)

\* The clients the storage holds, each with its registered redirect URIs.
ClientRegistry ==
    [client_id \in {"web", "app"} |->
        IF client_id = "web"
        THEN {[scheme |-> "https", host |-> "app.example", path |-> "/cb"]}
        ELSE {[scheme |-> "https", host |-> "app.example", path |-> "/cb"],
              [scheme |-> "https", host |-> "app.example", path |-> "/other"]}]

\* storage.lookup_client
LookupClient(client_id) ==
    IF client_id \in DOMAIN ClientRegistry
    THEN [ok |-> TRUE, value |-> [client_id |-> client_id,
                                  redirect_uris |-> ClientRegistry[client_id]]]
    ELSE [ok |-> FALSE, error |-> "ClientLookup"]

\* client.resolve_redirect_uri: without a requested URI the only registered
\* one; with one, that URI if it is registered.
ResolveRedirectUri(client, requested) ==
    IF requested = None
    THEN IF Cardinality(client.redirect_uris) = 1
         THEN [ok |-> TRUE, value |-> CHOOSE uri \in client.redirect_uris : TRUE]
         ELSE [ok |-> FALSE, error |-> "InvalidRedirectUri"]
    ELSE IF requested[1] \in client.redirect_uris
         THEN [ok |-> TRUE, value |-> requested[1]]
         ELSE [ok |-> FALSE, error |-> "InvalidRedirectUri"]

\* The lookup that takes the URI the request names without asking the client.
RedirectUriFromParamsMutant(params) ==
    IF params.redirect_uri # None /\ UrlParse(params.redirect_uri[1]).ok
    THEN [ok |-> TRUE, value |-> UrlParse(params.redirect_uri[1]).value]
    ELSE [ok |-> FALSE, error |-> "MissingClientId"]

RedirectUriFromParams(params) ==
    IF params.client_id = None THEN [ok |-> FALSE, error |-> "MissingClientId"]
    ELSE LET client == LookupClient(params.client_id[1]) IN
         IF ~client.ok THEN client
         ELSE IF params.redirect_uri # None /\ ~UrlParse(params.redirect_uri[1]).ok
         THEN [ok |-> FALSE, error |-> "RedirectUriParseError"]
         ELSE ResolveRedirectUri(client.value,
                                 IF params.redirect_uri = None THEN None
                                 ELSE Some(UrlParse(params.redirect_uri[1]).value))

\* redirect_uri.query_pairs_mut().append_pair(..).append_pair(..)
AppendPairs(url, pairs) == url @@ [query |-> pairs]

\* BrowserErrorHandler::handle.  The request carries its query, None when
\* it does not deserialise, and what the handler behind the middleware
\* answers.
BrowserErrorHandlerHandle(request) ==
    IF request.query = None THEN [kind |-> "query_error", error |-> None]
    ELSE LET redirect_uri == RedirectUriFromParams(request.query[1])
             inner == request.next
         IN  IF inner.error # None
             THEN IF redirect_uri.ok
                  THEN [kind |-> "redirect", error |-> None,
                        location |-> AppendPairs(redirect_uri.value,
                                        <<<<"error", "server_error">>,
                                          <<"error_description", "unknown server error">>>>)]
                  ELSE [kind |-> "view", error |-> None, body |-> inner.error[1]]
             ELSE inner

\* The redirect_uri parameters a request may carry, as the text sent.
RedirectUriTexts ==
    {<<"https", "://", "app.example", "/cb">>,
     <<"HTTPS", "://", "app.example", "/cb">>,
     <<"https", "://", "app.example:443", "/cb">>,
     <<"https", "://", "app.example:8443", "/cb">>,
     <<"https", "://", "app.example", "/other">>,
     <<"https", "://", "evil.example", "/cb">>,
     <<"not a url">>}

QueryParams ==
    [client_id : {None, Some("web"), Some("app"), Some("ghost")},
     redirect_uri : {None} \cup {Some(text) : text \in RedirectUriTexts}]

\* What next.run answers: a page, a redirect of the handler's own, or a
\* response that carries an error.
HandlerResponses ==
    {[kind |-> "page", error |-> None],
     [kind |-> "redirect", error |-> None,
      location |-> [scheme |-> "https", host |-> "mas.example", path |-> "/login"]],
     [kind |-> "page", error |-> Some("internal")]}

BrowserRequests ==
    [query : {None} \cup {Some(params) : params \in QueryParams},
     next : HandlerResponses]

InitBrowser ==
    /\ now = 0
    /\ grants = <<>> /\ user_sessions = <<>> /\ authentications = <<>>
    /\ oauth2_sessions = <<>> /\ access_tokens = <<>> /\ refresh_tokens = <<>>
    /\ consents = [uc \in Users \X Clients |-> {}]
    /\ response = NoResponse
    /\ lookup = IdleRow
    /\ loaded = NotLoaded
    /\ inflight \in BrowserRequests
    /\ jar = None
    /\ rendered = {}
    /\ introspection = NotIntrospected
    /\ next_sweep = 0

\* GET /oauth2/authorize through the middleware.
BrowserRequest ==
    /\ response = NoResponse
    /\ response' = BrowserErrorHandlerHandle(inflight)
    /\ UNCHANGED <<now, dbvars, lookup, loaded, webvars>>

NextBrowser == BrowserRequest

SpecBrowser == InitBrowser /\ [][NextBrowser]_vars

----------------------------------------------------------------------------
(* Properties of the loader (checked under SpecLoad).                      *)

RowSessionPresent ==
    /\ lookup.session_id # NULL
    /\ lookup.user_session_id # NULL
    /\ lookup.user_session_created_at # NULL
    /\ lookup.user_id # NULL
    /\ lookup.user_username # NONE
    /\ (lookup.user_session_last_authentication_id # NULL
        <=> lookup.user_session_last_authentication_created_at # NULL)

RowSessionAbsent ==
    /\ lookup.session_id = NULL
    /\ lookup.user_session_id = NULL
    /\ lookup.user_session_created_at = NULL
    /\ lookup.user_id = NULL
    /\ lookup.user_username = NONE
    /\ lookup.user_session_last_authentication_id = NULL
    /\ lookup.user_session_last_authentication_created_at = NULL

RowIsPending ==
    /\ lookup.grant_fulfilled_at = NULL /\ lookup.grant_exchanged_at = NULL
    /\ lookup.grant_cancelled_at = NULL /\ RowSessionAbsent
RowIsFulfilled ==
    /\ lookup.grant_fulfilled_at # NULL /\ lookup.grant_exchanged_at = NULL
    /\ lookup.grant_cancelled_at = NULL /\ RowSessionPresent
RowIsExchanged ==
    /\ lookup.grant_fulfilled_at # NULL /\ lookup.grant_exchanged_at # NULL
    /\ lookup.grant_cancelled_at = NULL /\ RowSessionPresent
RowIsCancelled ==
    /\ lookup.grant_fulfilled_at = NULL /\ lookup.grant_exchanged_at = NULL
    /\ lookup.grant_cancelled_at # NULL /\ RowSessionAbsent

\* The code and PKCE columns of the row agree with each other.
RowCodeColumnsOk ==
    /\ \/ lookup.grant_code_challenge = NONE /\ lookup.grant_code_challenge_method = NONE
       \/ lookup.grant_code_challenge # NONE
          /\ lookup.grant_code_challenge_method \in {"plain", "S256"}
    /\ \/ lookup.grant_response_type_code /\ lookup.grant_code # NONE
       \/ /\ ~lookup.grant_response_type_code /\ lookup.grant_code = NONE
          /\ lookup.grant_code_challenge = NONE

\* C1: a loaded grant is Pending, Fulfilled, Exchanged or Cancelled exactly
\* when (fulfilled_at, exchanged_at, cancelled_at, session) has that stage's
\* pattern; a row with any other combination of the four yields
\* DatabaseInconsistencyError and no grant; a row with one of the four
\* patterns (and consistent code columns) yields a grant.
C1_StageFunction ==
    loaded # NotLoaded =>
        /\ loaded.ok =>
            /\ loaded.stage.name \in {"Pending", "Fulfilled", "Exchanged", "Cancelled"}
            /\ loaded.stage.name = "Pending" <=> RowIsPending
            /\ loaded.stage.name = "Fulfilled" <=> RowIsFulfilled
            /\ loaded.stage.name = "Exchanged" <=> RowIsExchanged
            /\ loaded.stage.name = "Cancelled" <=> RowIsCancelled
            /\ (loaded.stage.session # None) <=> (RowIsFulfilled \/ RowIsExchanged)
        /\ ~(RowIsPending \/ RowIsFulfilled \/ RowIsExchanged \/ RowIsCancelled)
            => loaded = DatabaseInconsistencyError
        /\ (RowIsPending \/ RowIsFulfilled \/ RowIsExchanged \/ RowIsCancelled)
            /\ RowCodeColumnsOk => loaded.ok

C1_Witness ==
    /\ loaded.ok
    /\ loaded.stage.name = "Exchanged"
    /\ lookup.grant_exchanged_at # NULL

----------------------------------------------------------------------------
(* Properties of the grant life cycle (checked under Spec).                *)

\* The stage of a stored grant, read from its columns.
StoredStage(og) ==
    IF og.cancelled_at # NULL THEN "Cancelled"
    ELSE IF og.exchanged_at # NULL THEN "Exchanged"
    ELSE IF og.fulfilled_at # NULL THEN "Fulfilled"
    ELSE "Pending"

StoredPending(g) ==
    /\ g \in DOMAIN grants
    /\ StoredStage(grants[g]) = "Pending"

\* The request carries a cookie that names an active browser session.
HasSession(cookie) ==
    /\ cookie \in DOMAIN user_sessions
    /\ user_sessions[cookie].finished_at = NULL

AuthTimes(cookie) ==
    {authentications[a].created_at :
        a \in {x \in DOMAIN authentications : authentications[x].session_id = cookie}}

\* The session authenticated recently enough for the max_age the grant stores.
FreshFor(g, cookie) ==
    /\ AuthTimes(cookie) # {}
    /\ grants[g].max_age # NULL => Max(AuthTimes(cookie)) >= now - grants[g].max_age

IsDeviceScope(token) ==
    /\ Len(token) >= 3
    /\ token[1] = "urn" /\ token[2] = "matrix" /\ token[3] = "device"

\* The grant needs the consent page for the user of the session.
NeedsConsent(g, cookie) ==
    \/ grants[g].requires_consent
    \/ \E token \in grants[g].scope :
          /\ token \notin consents[<<user_sessions[cookie].user, grants[g].client_id>>]
          /\ ~IsDeviceScope(token)

CookieInputs == {NULL} \cup (1..MaxUserSessions)

\* The step is get() answering the request (grant_id, cookie) under fault.
\* get() answers with one of CompletionKinds only, so the first conjunct
\* follows from the second; it is stated first to settle other steps early.
CompletionKinds == {"error", "login", "reauth", "consent", "callback"}

CompletionStep(grant_id, cookie, fault) ==
    /\ response'.kind \in CompletionKinds
    /\ Get(grant_id, cookie, fault)

\* C2: every stored grant has exchanged_at only with fulfilled_at,
\* fulfilled_at only without cancelled_at, and a session id exactly when
\* fulfilled_at is set; the loader accepts every stored row.
C2_StoredGrantsConsistent ==
    \A g \in DOMAIN grants :
        /\ grants[g].exchanged_at # NULL => grants[g].fulfilled_at # NULL
        /\ grants[g].fulfilled_at # NULL => grants[g].cancelled_at = NULL
        /\ grants[g].oauth2_session_id # NULL <=> grants[g].fulfilled_at # NULL
        /\ \A r \in GetGrantById(Db, g) : r.ok /\ r.stage.name = StoredStage(grants[g])

C2_Witness ==
    \E g \in DOMAIN grants :
        /\ grants[g].exchanged_at # NULL
        /\ grants[g].oauth2_session_id \in DOMAIN oauth2_sessions

\* C3: a grant is created Pending and its stage only moves
\* Pending -> Fulfilled -> Exchanged or Pending -> Cancelled.
StageMoves ==
    {<<"Pending", "Pending">>, <<"Pending", "Fulfilled">>, <<"Pending", "Cancelled">>,
     <<"Fulfilled", "Fulfilled">>, <<"Fulfilled", "Exchanged">>,
     <<"Exchanged", "Exchanged">>, <<"Cancelled", "Cancelled">>}

C4_NotPendingBeforeSession ==
    [][\A g \in DOMAIN grants, cookie \in CookieInputs, fault \in Faults :
          ~StoredPending(g)
              => \/ response' = ErrorResponse(400) /\ UNCHANGED dbvars
                 \/ ~CompletionStep(g, cookie, fault)]_vars

\* C4 as amended: for a grant that is not Pending the completion endpoint
\* changes nothing; it answers 400 when the request carries an active
\* session, and redirects to Login for this grant when it carries none.
C4_NotPendingWithSession ==
    [][\A g \in DOMAIN grants, cookie \in CookieInputs, fault \in Faults :
          ~StoredPending(g)
              => \/ /\ UNCHANGED dbvars
                    /\ response' = IF HasSession(cookie) THEN ErrorResponse(400)
                                   ELSE Redirect("login", g)
                 \/ ~CompletionStep(g, cookie, fault)]_vars

C4_Witness ==
    /\ response = ErrorResponse(400)
    /\ \E g \in DOMAIN grants : StoredStage(grants[g]) = "Fulfilled"
    /\ \E cookie \in DOMAIN user_sessions : HasSession(cookie)

\* C5: for a Pending grant and a request without an active session the
\* answer is the Login redirect continuing with this grant, and nothing is
\* written: the grant stays Pending, no session, token or consent appears.
C5_NoSessionLogin ==
    [][\A g \in DOMAIN grants, cookie \in CookieInputs, fault \in Faults :
          (StoredPending(g) /\ ~HasSession(cookie))
              => \/ response' = Redirect("login", g) /\ UNCHANGED dbvars
                 \/ ~CompletionStep(g, cookie, fault)]_vars

C5_Witness ==
    /\ response.kind = "login"
    /\ StoredPending(response.grant)
    /\ oauth2_sessions = <<>>

\* C6 as claimed: a Pending grant with max_age whose session authenticated
\* too long ago (or never) is sent to Reauth and stays Pending.
C6_StaleSessionReauth ==
    [][\A g \in DOMAIN grants, cookie \in CookieInputs :
          (/\ StoredPending(g)
           /\ HasSession(cookie)
           /\ grants[g].max_age # NULL
           /\ ~FreshFor(g, cookie)
           /\ CompletionStep(g, cookie, "none"))
              => /\ response' = Redirect("reauth", g)
                 /\ UNCHANGED dbvars]_vars

\* C7: for a Pending grant and a fresh session the answer is the Consent
\* redirect for this grant exactly when the grant requires consent or its
\* scope holds a token that is neither consented nor a device scope; on
\* that path nothing is written.
C7_ConsentRedirect ==
    [][\A g \in DOMAIN grants, cookie \in CookieInputs :
          /\ \A fault \in Faults :
                (/\ response'.kind = "consent"
                 /\ StoredPending(g)
                 /\ HasSession(cookie)
                 /\ FreshFor(g, cookie)
                 /\ CompletionStep(g, cookie, fault))
                    => /\ NeedsConsent(g, cookie)
                       /\ response' = Redirect("consent", g)
                       /\ UNCHANGED dbvars
          /\ (/\ StoredPending(g)
              /\ HasSession(cookie)
              /\ FreshFor(g, cookie)
              /\ NeedsConsent(g, cookie)
              /\ CompletionStep(g, cookie, "none"))
                    => response'.kind = "consent"]_vars

C7_Witness ==
    /\ response.kind = "consent"
    /\ StoredPending(response.grant)
    /\ ~grants[response.grant].requires_consent

\* The completion fulfilled the grant: linked to the session just derived.
FulfilledBy(g, cookie) ==
    /\ StoredStage(grants'[g]) = "Fulfilled"
    /\ oauth2_sessions' = Append(oauth2_sessions, oauth2_sessions'[Len(oauth2_sessions')])
    /\ grants'[g].oauth2_session_id = Len(oauth2_sessions')
    /\ oauth2_sessions'[Len(oauth2_sessions')].user_session_id = cookie
    /\ oauth2_sessions'[Len(oauth2_sessions')].client_id = grants[g].client_id
    /\ oauth2_sessions'[Len(oauth2_sessions')].scope = grants[g].scope

\* C8 as claimed: a Pending grant with a fresh session and sufficient
\* consent is fulfilled with a session derived from the browser session,
\* and the callback carries the stored code exactly when the grant has one.
C8_FulfilAndCallback ==
    [][\A g \in DOMAIN grants, cookie \in CookieInputs :
          (/\ StoredPending(g)
           /\ HasSession(cookie)
           /\ FreshFor(g, cookie)
           /\ ~NeedsConsent(g, cookie)
           /\ CompletionStep(g, cookie, "none"))
              => /\ FulfilledBy(g, cookie)
                 /\ response'.kind = "callback"
                 /\ response'.grant = g
                 /\ response'.code = IF grants[g].response_type_code
                                     THEN Some(grants[g].code) ELSE None]_vars

\* C9: a completion that fulfils a grant with response_type_token persists
\* exactly one access token and one refresh token in that step, both of the
\* session derived for the grant, the refresh token naming the access token,
\* and the callback carries both with expires_in of five minutes; a
\* completion of a grant without response_type_token issues no token.
C9_ImplicitTokens ==
    [][\A g \in DOMAIN grants, cookie \in CookieInputs, fault \in Faults :
          /\ (/\ StoredPending(g)
              /\ StoredStage(grants'[g]) = "Fulfilled"
              /\ grants[g].response_type_token
              /\ CompletionStep(g, cookie, fault))
                => /\ Len(access_tokens') = Len(access_tokens) + 1
                   /\ Len(refresh_tokens') = Len(refresh_tokens) + 1
                   /\ SubSeq(access_tokens', 1, Len(access_tokens)) = access_tokens
                   /\ SubSeq(refresh_tokens', 1, Len(refresh_tokens)) = refresh_tokens
                   /\ LET a == access_tokens'[Len(access_tokens')]
                          r == refresh_tokens'[Len(refresh_tokens')]
                      IN  /\ a.oauth2_session_id = grants'[g].oauth2_session_id
                          /\ r.oauth2_session_id = a.oauth2_session_id
                          /\ r.access_token_id = Len(access_tokens')
                          /\ a.expires_after = 5
                          /\ response'.kind = "callback"
                               => /\ response'.access_token = Some(a.token)
                                  /\ response'.refresh_token = Some(r.token)
                                  /\ response'.expires_in = 5
          /\ (/\ \/ access_tokens' # access_tokens
                 \/ refresh_tokens' # refresh_tokens
                 \/ response'.access_token # None
                 \/ response'.refresh_token # None
              /\ CompletionStep(g, cookie, fault))
                => /\ StoredPending(g)
                   /\ StoredStage(grants'[g]) = "Fulfilled"
                   /\ grants[g].response_type_token]_vars

C9_Witness ==
    /\ response.kind = "callback"
    /\ response.access_token # None
    /\ response.refresh_token # None
    /\ Len(access_tokens) = 1 /\ Len(refresh_tokens) = 1
    /\ refresh_tokens[1].oauth2_session_id = grants[response.grant].oauth2_session_id

\* C10 as claimed: a Pending grant with response_type_id_token that passes
\* the freshness and consent checks is fulfilled and the callback carries
\* an ID token.
C10_IdTokenIssued ==
    [][\A g \in DOMAIN grants, cookie \in CookieInputs :
          (/\ StoredPending(g)
           /\ grants[g].response_type_id_token
           /\ HasSession(cookie)
           /\ FreshFor(g, cookie)
           /\ ~NeedsConsent(g, cookie)
           /\ CompletionStep(g, cookie, "none"))
              => /\ StoredStage(grants'[g]) = "Fulfilled"
                 /\ response'.kind = "callback"
                 /\ response'.id_token # None]_vars

\* A completion that ended in an error before its commit: every failure but
\* the one of rendering the callback, which comes after the commit.
FaultsBeforeCommit == Faults \ {"render"}

\* Every OAuth session is linked from a Fulfilled or Exchanged grant, and
\* every token names an existing OAuth session.
NoOrphans(gs, ss, ats, rts) ==
    /\ \A sid \in DOMAIN ss :
          \E g \in DOMAIN gs :
              /\ gs[g].oauth2_session_id = sid
              /\ StoredStage(gs[g]) \in {"Fulfilled", "Exchanged"}
    /\ \A t \in DOMAIN ats : ats[t].oauth2_session_id \in DOMAIN ss
    /\ \A t \in DOMAIN rts :
          /\ rts[t].oauth2_session_id \in DOMAIN ss
          /\ rts[t].access_token_id \in DOMAIN ats

\* C11, for requests served one at a time: a completion that ends in an error before its commit leaves every
\* table as it was (the grant still Pending, no session and no token for
\* it), and after every step each OAuth session is linked from a Fulfilled
\* or Exchanged grant and each token names an existing session.
C11_CompletionAtomic ==
    [][/\ \A g \in DOMAIN grants, cookie \in CookieInputs, fault \in FaultsBeforeCommit :
              (response'.kind = "error" /\ StoredPending(g))
                  => \/ UNCHANGED dbvars
                     \/ ~CompletionStep(g, cookie, fault)
       /\ NoOrphans(grants', oauth2_sessions', access_tokens', refresh_tokens')]_vars

\* A completion of an ID-token grant has just failed: the user is logged in
\* and has consented, yet the grant is Pending and no session exists.
C11_Witness ==
    /\ response = ErrorResponse(500)
    /\ oauth2_sessions = <<>> /\ access_tokens = <<>> /\ refresh_tokens = <<>>
    /\ \E g \in DOMAIN grants, cookie \in DOMAIN user_sessions :
          /\ StoredPending(g)
          /\ HasSession(cookie)
          /\ FreshFor(g, cookie)
          /\ ~NeedsConsent(g, cookie)

\* C11 as claimed, over concurrent requests: in every reachable state each
\* OAuth session is linked from a Fulfilled or Exchanged grant and each
\* token names an existing session.
C11_NoOrphanSession ==
    NoOrphans(grants, oauth2_sessions, access_tokens, refresh_tokens)

\* C12 as claimed: of the token requests that present one code, at most one
\* finds the grant Fulfilled and issues tokens: a token request issues
\* tokens only while the stored grant is Fulfilled, not yet Exchanged.
C12_ExchangeSerialised ==
    [][\A p \in Requests :
          (TokenFinish(p) /\ response'.kind = "token")
              => StoredStage(grants[inflight[p].grant.data]) = "Fulfilled"]_vars

\* C13 as claimed: however completion requests for one grant interleave,
\* at most one OAuth session is derived for it: every OAuth session is the
\* one some grant links to.
C13_FulfilledOnce ==
    \A sid \in DOMAIN oauth2_sessions :
        \E g \in DOMAIN grants : grants[g].oauth2_session_id = sid

\* The tokens issued against a grant: those of the OAuth session it links.
AccessTokensOf(g) ==
    {t \in DOMAIN access_tokens :
        access_tokens[t].oauth2_session_id = grants[g].oauth2_session_id}

RefreshTokensOf(g) ==
    {t \in DOMAIN refresh_tokens :
        refresh_tokens[t].oauth2_session_id = grants[g].oauth2_session_id}

\* C14: a token request that presents the code of an Exchanged grant is
\* answered 400 (invalid_grant), and after it introspection reports every
\* access and refresh token issued against the grant as inactive.
C14_ReplayRevokes ==
    [][\A code \in Codes, g \in DOMAIN grants :
          (/\ grants[g].code = code
           /\ StoredStage(grants[g]) = "Exchanged"
           /\ TokenPost(code))
              => /\ response' = ErrorResponse(400)
                 /\ \A t \in AccessTokensOf(g) :
                       ~(Introspect(access_tokens[t].token, NONE).active)'
                 /\ \A t \in RefreshTokensOf(g) :
                       ~(Introspect(refresh_tokens[t].token, NONE).active)']_vars

\* The code was replayed while the access token had not expired yet.
C14_Witness ==
    /\ response = ErrorResponse(400)
    /\ \E g \in DOMAIN grants :
          /\ StoredStage(grants[g]) = "Exchanged"
          /\ \E t \in AccessTokensOf(g) :
                /\ access_tokens[t].revoked_at # NULL
                /\ access_tokens[t].created_at + access_tokens[t].expires_after > now
                /\ ~Introspect(access_tokens[t].token, NONE).active

\* C15: every refresh-token chain holds at most one token that is not
\* consumed; presenting a consumed refresh token is answered 400
\* (invalid_grant) and leaves every token issued by the later rotations of
\* its chain inactive.
C15_RefreshSingleUse ==
    [][/\ \A t \in DOMAIN refresh_tokens' :
              Cardinality({u \in ChainFrom(refresh_tokens', t) :
                              refresh_tokens'[u].consumed_at = NULL}) <= 1
       /\ \A t \in DOMAIN refresh_tokens :
              (refresh_tokens[t].consumed_at # NULL /\ RefreshPost(refresh_tokens[t].token))
                  => /\ response' = ErrorResponse(400)
                     /\ \A u \in ChainFrom(refresh_tokens, t) :
                           /\ ~(Introspect(refresh_tokens[u].token, NONE).active)'
                           /\ ~(Introspect(access_tokens[refresh_tokens[u].access_token_id].token,
                                           NONE).active)']_vars

\* R1 was used twice: the pair of the rotation is revoked before it expired.
C15_Witness ==
    /\ response = ErrorResponse(400)
    /\ \E t \in DOMAIN refresh_tokens :
          /\ refresh_tokens[t].next_refresh_token_id # NULL
          /\ LET u == refresh_tokens[t].next_refresh_token_id
                 a == access_tokens[refresh_tokens[u].access_token_id]
             IN  /\ refresh_tokens[u].next_refresh_token_id = NULL
                 /\ refresh_tokens[u].consumed_at # NULL
                 /\ a.revoked_at # NULL
                 /\ a.created_at + a.expires_after > now

\* C16: no two grants share a non-null code, so lookup_grant_by_code finds
\* at most one grant for any code; an insertion with the code of an
\* existing grant fails and creates no grant.
C16_CodesUnique ==
    [][/\ \A g1, g2 \in DOMAIN grants' :
              (grants'[g1].code # NONE /\ grants'[g1].code = grants'[g2].code) => g1 = g2
       /\ \A code \in CodeInputs :
              Cardinality({r.data : r \in {x \in LookupGrantByCode(Db, code)' : x.ok}}) <= 1
       /\ \A scope \in ScopeInputs, code \in CodeInputs :
              ((\E g \in DOMAIN grants : grants[g].code = code)
                  /\ InsertGrant(scope, Some(code)))
                  => /\ grants' = grants
                     /\ response' = ErrorResponse(500)]_vars

\* An insertion with a code in use was refused, then the code looked up.
C16_Witness ==
    /\ response = ErrorResponse(500)
    /\ Len(grants) = 2
    /\ loaded \in LookupGrantByCode(Db, "code1")
    /\ loaded.ok

\* fetch_consent(U, C) for the user and client of a fulfilled grant.
ConsentFor(g) ==
    consents[<<user_sessions[oauth2_sessions[grants[g].oauth2_session_id].user_session_id].user,
               grants[g].client_id>>]

CsrfMatches(cookie_jar, csrf) ==
    /\ cookie_jar # None
    /\ cookie_jar[1].decodable
    /\ now < cookie_jar[1].expiration
    /\ Base64UrlDecode(csrf).ok
    /\ Base64UrlDecode(csrf).value = cookie_jar[1].token

\* C18: verify_form succeeds, returning the inner form, if and only if the
\* jar holds a decodable csrf cookie whose expiration is strictly later than
\* the current time and whose secret equals the base64url-decoded csrf form
\* field; in every other case it fails and carries no inner form.
C18_VerifyFormIff ==
    \A form \in FormInputs :
        LET verified == VerifyForm(jar, form) IN
        /\ verified.ok <=> CsrfMatches(jar, form.csrf)
        /\ verified.ok => verified.value = form.inner
        /\ ~verified.ok => "value" \notin DOMAIN verified

\* C18 witness: a verified POST /reauth has been answered, and the jar's
\* cookie accepts one field, rejects another as a mismatch and a third as
\* undecodable.
C18_Witness ==
    /\ response.kind = "next"
    /\ \E form \in FormInputs : VerifyForm(jar, form).ok
    /\ \E form \in FormInputs :
            /\ ~VerifyForm(jar, form).ok
            /\ VerifyForm(jar, form).error = "Mismatch"
    /\ \E form \in FormInputs :
            /\ ~VerifyForm(jar, form).ok
            /\ VerifyForm(jar, form).error = "Decode"

\* C19: when the jar holds a decodable, unexpired csrf cookie, csrf_token
\* returns and writes back a token with the same secret and an expiration
\* of now + 1 hour; and every form value rendered since the secret was
\* drawn passes verify_form against the jar, as long as the jar's cookie is
\* there and not expired.
C19_SecretStable ==
    [][/\ \A cookie \in 1..MaxUserSessions, random \in SecretInputs, action \in PostAuthActions :
            (KeepsToken(jar) /\ ReauthGet(cookie, random, action))
                => /\ CsrfTokenOf(jar, random)
                        = [expiration |-> now + CsrfTtl, token |-> jar[1].token]
                   /\ jar' # None
                   /\ jar'[1].decodable
                   /\ jar'[1].expiration = now + CsrfTtl
                   /\ jar'[1].token = jar[1].token
       /\ (KeepsToken(jar)
            => \A r \in rendered, inner \in [password : PasswordInputs] :
                    VerifyForm(jar, [csrf |-> r.value, inner |-> inner]).ok)']_vars

\* C19 witness: two renders at different times, the second before the
\* expiration the first one set, and the time now past that first expiration
\* with the jar's cookie still valid.
C19_Witness ==
    /\ KeepsToken(jar)
    /\ \E r1, r2 \in rendered :
            /\ r1.at < r2.at
            /\ r2.at < r1.at + CsrfTtl
            /\ r1.at + CsrfTtl <= now

\* C20: a POST /reauth whose csrf field does not match the csrf cookie, or
\* whose cookie is missing, undecodable or expired, is answered with the
\* 400 CSRF failure whatever the session cookie and the password are; it
\* records no authentication event and is not answered with the response
\* that sets the session cookie.
C20_CsrfBeforeReauth ==
    [][\/ /\ response'.kind \in {"Missing", "DecodeCookie", "Expired", "Decode", "Mismatch"}
          /\ response'.status = CsrfFailureStatus
          /\ authentications' = authentications
          /\ response'.session_cookie = NULL
       \/ \A cookie \in 1..MaxUserSessions, form \in FormInputs, action \in PostAuthActions :
            ~(/\ ~(/\ KeepsToken(jar)
                   /\ form.csrf = Base64UrlEncode(jar[1].token))
              /\ ReauthPost(cookie, form, action))]_vars

\* C20 witness: a POST /reauth was rejected for a mismatching csrf field
\* while the browser session is active and the csrf cookie is valid.
C20_Witness ==
    /\ response.kind = "Mismatch"
    /\ KeepsToken(jar)
    /\ \E cookie \in 1..MaxUserSessions : LoadSession(cookie) # None

\* The operations of the introspection endpoint on a presented token.
TokenOperations ==
    {"check", "lookup_active_access_token", "lookup_active_refresh_token"}

Touched(outcome) == {outcome.trace[i] : i \in DOMAIN outcome.trace}

\* C21: an introspection request from a client whose
\* token_endpoint_auth_method is none or unset is answered 401 with no body
\* before the token is classified or looked up; a request whose credentials
\* do not verify is answered 401 with no body as well.
C21_ConfidentialOnly ==
    [][(/\ introspection' # introspection
        /\ introspection'.client # None)
            => /\ introspection'.client[1].token_endpoint_auth_method \in {NONE, "none"}
                    => /\ introspection'.status = 401
                       /\ introspection'.body = None
                       /\ Touched(introspection') \cap TokenOperations = {}
               /\ "verify" \in Touched(introspection')
                    => \/ introspection'.error # "ClientCredentialsVerification"
                       \/ /\ introspection'.status = 401
                          /\ introspection'.body = None
                          /\ Touched(introspection') \cap TokenOperations = {}]_vars

\* C21 witness: a public client was refused while the ledger holds an
\* active access token.
C21_Witness ==
    /\ introspection.status = 401
    /\ introspection.error = "NotAllowed"
    /\ \E t \in DOMAIN access_tokens : LookupActiveAccessToken(access_tokens[t].token) # {}

\* A token string with a prefix of no token type, or with a checksum that
\* is not the one of its prefix and random part.
Malformed(token) ==
    \/ token.prefix \notin {"mat_ac", "mat_rt"}
    \/ token.crc # Checksum(token.prefix, token.random)

\* C22: when the presented token is classified as unknown (bad prefix or
\* bad checksum), the endpoint answers 200 with the body {active: false},
\* every other field absent, and looks no token up.
C22_UnknownTokenInactive ==
    [][(/\ introspection' # introspection
        /\ introspection'.token # None
        /\ Malformed(introspection'.token[1].token))
            => /\ introspection'.status = 200
               /\ introspection'.body # None
               /\ introspection'.body[1].active = FALSE
               /\ \A field \in DOMAIN introspection'.body[1] \ {"active"} :
                        introspection'.body[1][field] = None
               /\ Touched(introspection')
                    \cap {"lookup_active_access_token", "lookup_active_refresh_token"} = {}]_vars

\* C22 witness: the token of the last request has the checksum of no token
\* although its prefix and random part are those of an active access token.
C22_Witness ==
    /\ introspection.token # None
    /\ introspection.token[1].token.crc
            # Checksum(introspection.token[1].token.prefix, introspection.token[1].token.random)
    /\ \E t \in DOMAIN access_tokens :
            /\ LookupActiveAccessToken(access_tokens[t].token) # {}
            /\ access_tokens[t].token.random = introspection.token[1].token.random
            /\ access_tokens[t].token.prefix = introspection.token[1].token.prefix

\* The ledger's view of a token string at the time of the request.
LedgerActive(token) ==
    \/ /\ token.prefix = "mat_ac"
       /\ \E t \in DOMAIN access_tokens :
            /\ access_tokens[t].token = token
            /\ access_tokens[t].revoked_at = NULL
            /\ access_tokens[t].created_at + access_tokens[t].expires_after > now
    \/ /\ token.prefix = "mat_rt"
       /\ \E t \in DOMAIN refresh_tokens :
            /\ refresh_tokens[t].token = token
            /\ refresh_tokens[t].consumed_at = NULL
            /\ oauth2_sessions[refresh_tokens[t].oauth2_session_id].finished_at = NULL

\* C23: introspection answers active: true only for a token the ledger
\* holds active at the time of the request (access token: not revoked and
\* created_at + expires_after > now; refresh token: not consumed and its
\* session not finished); a token not found, revoked, expired or consumed
\* gets 200 with active: false and no scope, client_id, username or sub;
\* and a failing lookup gets 500 and no body.
C23_ActiveOnlyIfLedgerActive ==
    [][(/\ introspection' # introspection
        /\ introspection'.token # None)
            => LET out == introspection'
                   token == out.token[1].token
               IN  /\ (out.body # None /\ out.body[1].active) => LedgerActive(token)
                   /\ ("io_error" \notin Touched(out) /\ ~LedgerActive(token))
                        => /\ out.status = 200
                           /\ out.body # None
                           /\ out.body[1].active = FALSE
                           /\ out.body[1].scope = None
                           /\ out.body[1].client_id = None
                           /\ out.body[1].username = None
                           /\ out.body[1].sub = None
                   /\ "io_error" \in Touched(out)
                        => /\ out.status = 500
                           /\ out.body = None]_vars

\* C23 witness: the last request presented an issued access token that has
\* expired unrevoked, and was answered active: false.
C23_Witness ==
    /\ introspection.token # None
    /\ introspection.body # None
    /\ ~introspection.body[1].active
    /\ "lookup_active_access_token" \in Touched(introspection)
    /\ \E t \in DOMAIN access_tokens :
            /\ access_tokens[t].token = introspection.token[1].token
            /\ access_tokens[t].revoked_at = NULL
            /\ access_tokens[t].created_at + access_tokens[t].expires_after <= now

\* C24 as claimed: the completion of a Pending grant with max_age set, for
\* an existing session, is answered with the Reauth redirect exactly while
\* the session's last authentication is older than max_age (or missing):
\* the stale session is sent to Reauth, and once the password has been
\* re-entered the completion does not ask for it again.
C24_ReauthWhileStale ==
    [][\A g \in DOMAIN grants, cookie \in CookieInputs :
          (/\ StoredPending(g)
           /\ HasSession(cookie)
           /\ grants[g].max_age # NULL
           /\ CompletionStep(g, cookie, "none"))
              => (response'.kind = "reauth" <=> ~FreshFor(g, cookie))]_vars

\* C25: a POST /reauth that passes the CSRF check with the right password
\* for an active session appends one authentication event of that session
\* at the current time and leaves the session row as it is; the event is
\* the session's last_authentication, the session cookie names the same
\* session, and the answer is the continuation.  Without an active session
\* the answer is the Login redirect with the same post-auth action, and no
\* authentication is recorded.
C25_ReauthAppends ==
    [][response'.kind \in {"next", "login"} =>
        \A cookie \in 1..MaxUserSessions, form \in FormInputs, action \in PostAuthActions :
            (/\ VerifyForm(jar, form).ok
             /\ ReauthPost(cookie, form, action))
                => IF LoadSession(cookie) = None
                   THEN /\ response' = Redirect("login", action)
                        /\ authentications' = authentications
                        /\ user_sessions' = user_sessions
                   ELSE /\ form.inner.password = "right"
                        /\ authentications' = Append(authentications,
                                [session_id |-> cookie, created_at |-> now])
                        /\ user_sessions' = user_sessions
                        /\ LastAuthentication(cookie)'
                                = Some([data |-> Len(authentications) + 1, created_at |-> now])
                        /\ LoadSession(cookie)'
                                = [LoadSession(cookie) EXCEPT ![1].last_authentication =
                                        Some([data |-> Len(authentications) + 1,
                                              created_at |-> now])]
                        /\ response'.kind = "next"
                        /\ response'.grant = action
                        /\ response'.session_cookie = cookie]_vars

\* C25 witness: a session that logged in earlier has re-authenticated, with
\* a grant to continue.
C25_Witness ==
    /\ response.kind = "next"
    /\ response.grant # NULL
    /\ Len(authentications) = 2
    /\ authentications[1].created_at < authentications[2].created_at
    /\ authentications[1].session_id = authentications[2].session_id

\* C26 as claimed: a POST /reauth that passes the CSRF check for an active
\* session with a wrong password is answered with the reauth form rendered
\* again, and records no authentication event.
C26_WrongPasswordRerenders ==
    [][\/ /\ response'.kind = "reauth_form"
          /\ authentications' = authentications
       \/ \A cookie \in 1..MaxUserSessions, form \in FormInputs, action \in PostAuthActions :
            ~(/\ VerifyForm(jar, form).ok
              /\ LoadSession(cookie) # None
              /\ form.inner.password = "wrong"
              /\ ReauthPost(cookie, form, action))]_vars

\* C27 as claimed: whenever a grant is loaded as Fulfilled or Exchanged, the
\* browser session attached to it carries as last_authentication the most
\* recent authentication event of that session.
C27_LoadedLastAuthentication ==
    [][(/\ loaded' # loaded
        /\ loaded'.ok
        /\ loaded'.stage.name \in {"Fulfilled", "Exchanged"})
            => LET browser_session == loaded'.stage.session[1].browser_session IN
               browser_session.last_authentication = LastAuthentication(browser_session.data)]_vars

\* C28 as claimed: the completion endpoint answers 404 for a grant id that
\* matches no row.
C28_NotFoundIs404 ==
    [][\A grant_id \in 1..MaxGrants, cookie \in CookieInputs, fault \in Faults :
          (grant_id \notin DOMAIN grants /\ CompletionStep(grant_id, cookie, fault))
              => response'.status = 404]_vars

\* A Pending grant older than the grant lifetime of the sweep.
StalePending(g) ==
    /\ StoredPending(g)
    /\ grants[g].created_at + GrantTtlSeconds < now

\* C29: with the cleanup task recurring every 15 seconds from server start,
\* every grant that is Pending more than 10 minutes after created_at
\* eventually leaves Pending, cancelled by the sweep unless it was completed
\* first; a run of the sweep cancels every such grant and leaves younger and
\* non-Pending grants unchanged; whenever no run is due, no Pending grant is
\* older than the lifetime plus one interval; and a cancelled grant is
\* refused by the completion endpoint and stays cancelled.
C29_SweepCancelsStale ==
    /\ \A g \in 1..MaxGrants :
            StalePending(g) ~> (g \in DOMAIN grants /\ ~StoredPending(g))
    /\ [][next_sweep' # next_sweep
            => /\ next_sweep' = now + CleanupInterval
               /\ DOMAIN grants' = DOMAIN grants
               /\ \A g \in DOMAIN grants :
                    IF StalePending(g)
                    THEN grants'[g] = [grants[g] EXCEPT !.cancelled_at = now]
                    ELSE grants'[g] = grants[g]]_vars
    /\ [](now < next_sweep
            => \A g \in DOMAIN grants :
                    StoredPending(g)
                        => now < grants[g].created_at + GrantTtlSeconds + CleanupInterval)
    /\ [][\/ /\ grants' = grants
             /\ response'.kind \in {"error", "login"}
          \/ \A g \in DOMAIN grants, cookie \in CookieInputs, fault \in Faults :
                ~(/\ StoredStage(grants[g]) = "Cancelled"
                  /\ CompletionStep(g, cookie, fault))]_vars

C29_Witness ==
    /\ now < next_sweep
    /\ response = ErrorResponse(400)
    /\ \E g \in DOMAIN grants :
            /\ StoredStage(grants[g]) = "Cancelled"
            /\ grants[g].created_at + GrantTtlSeconds < grants[g].cancelled_at

\* The random parts the codec is tried on, beyond one period of the checksum.
MaxRandom == 8

TokenKinds == {"AccessToken", "RefreshToken"}

Stored(p) ==
    /\ Len(grants') = Len(grants) + 1
    /\ grants'[Len(grants')].state = p.state
    /\ grants'[Len(grants')].response_type_token = p.response_type_token
    /\ grants'[Len(grants')].response_type_code = (p.code # None)
    /\ grants'[Len(grants')].response_mode = ResponseModeToString(p.response_mode)
    /\ grants'[Len(grants')].redirect_uri = UrlToString(p.redirect_uri)
    /\ StoreAndLoad(p)

\* The loaded grant carries the request parameters of the created one,
\* max_age left aside.
SameParameters(grant, created) ==
    /\ grant.ok
    /\ grant.data = created.data
    /\ grant.stage.name = created.stage
    /\ grant.client = created.client
    /\ grant.redirect_uri = created.redirect_uri
    /\ grant.scope = created.scope
    /\ grant.state = created.state
    /\ grant.nonce = created.nonce
    /\ grant.acr_values = created.acr_values
    /\ grant.response_mode = created.response_mode
    /\ grant.response_type_token = created.response_type_token
    /\ grant.response_type_id_token = created.response_type_id_token
    /\ grant.code = created.code
    /\ grant.created_at = created.created_at

\* The loaded grant carries the max_age of the created one.
SameMaxAge(grant, created) ==
    IF created.max_age = None THEN grant.max_age = NULL
    ELSE /\ grant.max_age # NULL
         /\ NonZeroU32(grant.max_age) = created.max_age

\* C32 as claimed: a grant loaded by get_grant_by_id right after
\* new_authorization_grant is Pending and has the request parameters of the
\* grant that was created, max_age included.
C32_StoreLoadRoundTrip ==
    [][\A p \in GrantParams :
          Stored(p)
              => /\ SameParameters(loaded', CreatedGrant(p, Len(grants) + 1))
                 /\ SameMaxAge(loaded', CreatedGrant(p, Len(grants) + 1))]_vars

\* C40: new_authorization_grant stores max_age by saturation: a max_age of
\* at most 2^31 - 1 is stored unchanged, a larger one as 2^31 - 1, no
\* max_age as NULL; the stored value is never zero, negative or wrapped.
C40_MaxAgeSaturates ==
    [][\A p \in GrantParams :
          Stored(p)
              => LET stored == grants'[Len(grants) + 1].max_age IN
                 IF p.max_age = None THEN stored = NULL
                 ELSE /\ stored \in 1..I32Max
                      /\ p.max_age[1].hi < HalfWord \div 2 => NonZeroU32(stored) = p.max_age
                      /\ p.max_age[1].hi >= HalfWord \div 2 => stored = I32Max]_vars

C40_Witness ==
    \E g \in DOMAIN grants :
        /\ grants[g].max_age = I32Max
        /\ "redirect_uri" \in DOMAIN grants[g]
        /\ loaded # NotLoaded

\* C33: complete() reports the first failing check in the order NotPending,
\* RequiresReauth, RequiresConsent, each without writing anything, and it
\* derives a session or changes the grant only for a Pending grant, a
\* session fresh for the max_age of the grant it was given, and sufficient
\* consent.
C33_ChecksInOrder ==
    [][\A g \in DOMAIN grants, cookie \in 1..MaxUserSessions, fault \in Faults \ {"render"} :
          (/\ response'.kind \in CompletionKinds
           /\ HasSession(cookie)
           /\ CompleteCall(g, cookie, fault))
              => /\ ~StoredPending(g)
                    => /\ response' = ErrorResponse(400)
                       /\ UNCHANGED dbvars
                 /\ (StoredPending(g) /\ ~FreshFor(g, cookie))
                    => /\ response' \in {Redirect("reauth", g), ErrorResponse(500)}
                       /\ fault = "none" => response' = Redirect("reauth", g)
                       /\ UNCHANGED dbvars
                 /\ (StoredPending(g) /\ FreshFor(g, cookie) /\ NeedsConsent(g, cookie))
                    => /\ response' \in {Redirect("consent", g), ErrorResponse(500)}
                       /\ fault = "none" => response' = Redirect("consent", g)
                       /\ UNCHANGED dbvars
                 /\ (oauth2_sessions' # oauth2_sessions \/ grants' # grants)
                    => /\ StoredPending(g)
                       /\ FreshFor(g, cookie)
                       /\ ~NeedsConsent(g, cookie)]_vars

C33_Witness ==
    /\ response.kind = "reauth"
    /\ StoredPending(response.grant)
    /\ grants[response.grant].max_age # NULL
    /\ grants[response.grant].requires_consent
    /\ \E cookie \in DOMAIN user_sessions :
            /\ HasSession(cookie)
            /\ AuthTimes(cookie) # {}
            /\ ~FreshFor(response.grant, cookie)

CsrfErrors == {"Missing", "DecodeCookie", "Expired", "Decode", "Mismatch"}

\* The first check of verify_form that fails for the jar and the form, read
\* off the cookie and the field themselves.
FirstFailure(form) ==
    IF jar = None THEN "Missing"
    ELSE IF ~jar[1].decodable THEN "DecodeCookie"
    ELSE IF now >= jar[1].expiration THEN "Expired"
    ELSE IF ~Base64UrlDecode(form.csrf).ok THEN "Decode"
    ELSE IF \/ Len(Base64UrlDecode(form.csrf).value) # SecretLen
            \/ \E i \in 1..SecretLen : Base64UrlDecode(form.csrf).value[i] # jar[1].token[i]
    THEN "Mismatch"
    ELSE "none"

\* C34: verify_form reports the first failing check in the order Missing,
\* DecodeCookie, Expired, Decode, Mismatch, succeeds when none fails, and
\* every failure is one of these five kinds; an expired cookie is reported
\* Expired whatever the form holds.
C34_FirstFailingCheck ==
    \A form \in FormInputs :
        LET verified == VerifyForm(jar, form) IN
        /\ verified.ok <=> FirstFailure(form) = "none"
        /\ ~verified.ok => (verified.error \in CsrfErrors /\ verified.error = FirstFailure(form))
        /\ verified.ok => verified.value = form.inner

C34_Witness ==
    /\ response.kind = "Expired"
    /\ jar # None
    /\ jar[1].decodable
    /\ now >= jar[1].expiration
    /\ \E form \in FormInputs :
            /\ form.csrf = Base64UrlEncode(jar[1].token)
            /\ VerifyForm(jar, form) = [ok |-> FALSE, error |-> "Expired"]
    /\ \E form \in FormInputs : ~Base64UrlDecode(form.csrf).ok

\* The incoming csrf cookie is absent, undecodable or expired.
NoLiveCookie ==
    \/ jar = None
    \/ ~jar[1].decodable
    \/ now >= jar[1].expiration

\* C35: csrf_token leaves the jar with a decodable csrf cookie, HttpOnly,
\* path "/", expiring one hour from now, whose secret is the one of the
\* token rendered; the secret is the incoming cookie's when that is live
\* and the freshly drawn one when the cookie is absent, undecodable or
\* expired, so that a form value rendered earlier verifies afterwards only
\* if the draw repeats its secret; and verify_form right after csrf_token
\* with the returned form value succeeds.
C35_CsrfTokenLeavesValidCookie ==
    [][\A cookie \in 1..MaxUserSessions, random \in SecretInputs, action \in PostAuthActions :
          ReauthGet(cookie, random, action)
              => /\ jar' # None
                 /\ jar'[1].decodable
                 /\ jar'[1].http_only
                 /\ jar'[1].path = "/"
                 /\ jar'[1].expiration = now + CsrfTtl
                 /\ jar'[1].token = IF NoLiveCookie THEN random ELSE jar[1].token
                 /\ response'.kind = "reauth_form"
                        => [value |-> Base64UrlEncode(jar'[1].token), at |-> now] \in rendered'
                 /\ \A inner \in [password : PasswordInputs] :
                        VerifyForm(jar', [csrf |-> Base64UrlEncode(jar'[1].token), inner |-> inner])
                            = [ok |-> TRUE, value |-> inner]
                 /\ NoLiveCookie
                        => \A r \in rendered, inner \in [password : PasswordInputs] :
                              r.value # Base64UrlEncode(random)
                                  => VerifyForm(jar', [csrf |-> r.value, inner |-> inner])
                                        = [ok |-> FALSE, error |-> "Mismatch"]]_vars

\* A fresh secret replaced an expired one: the page rendered now carries a
\* value other than the one rendered before the expiry.
C35_Witness ==
    /\ response.kind = "reauth_form"
    /\ jar # None
    /\ jar[1].decodable
    /\ jar[1].http_only
    /\ jar[1].expiration = now + CsrfTtl
    /\ now >= CsrfTtl
    /\ rendered = {[value |-> Base64UrlEncode(jar[1].token), at |-> now]}

\* The PKCE columns of the row handed to the loader hold a challenge and a
\* known method.
RowHasPkce ==
    /\ lookup.grant_code_challenge # NONE
    /\ lookup.grant_code_challenge_method \in {"plain", "S256"}

RowHasNoPkce ==
    /\ lookup.grant_code_challenge = NONE
    /\ lookup.grant_code_challenge_method = NONE

\* C36: a loaded grant has a PKCE value exactly when both PKCE columns are
\* set and the method is "plain" or "S256", and a code exactly when
\* response_type_code holds and the code column is set, each with the
\* columns' values; a row with response_type_code and no code, a code
\* without response_type_code, PKCE columns without a code, only one PKCE
\* column, or an unknown method yields DatabaseInconsistencyError.
C36_CodePkceConsistency ==
    loaded # NotLoaded =>
        /\ loaded.ok =>
            /\ loaded.code # None
                <=> (lookup.grant_response_type_code /\ lookup.grant_code # NONE)
            /\ loaded.code = None
                <=> (~lookup.grant_response_type_code /\ lookup.grant_code = NONE /\ RowHasNoPkce)
            /\ loaded.code # None =>
                /\ loaded.code[1].code = lookup.grant_code
                /\ loaded.code[1].pkce # None <=> RowHasPkce
                /\ loaded.code[1].pkce = None <=> RowHasNoPkce
                /\ loaded.code[1].pkce # None =>
                    /\ loaded.code[1].pkce[1].challenge = lookup.grant_code_challenge
                    /\ loaded.code[1].pkce[1].challenge_method
                            = lookup.grant_code_challenge_method
        /\ (\/ lookup.grant_response_type_code /\ lookup.grant_code = NONE
            \/ ~lookup.grant_response_type_code /\ lookup.grant_code # NONE
            \/ ~lookup.grant_response_type_code /\ ~RowHasNoPkce
            \/ (lookup.grant_code_challenge = NONE) # (lookup.grant_code_challenge_method = NONE)
            \/ lookup.grant_code_challenge_method \notin {NONE, "plain", "S256"})
                => loaded = DatabaseInconsistencyError

\* A row consistent but for PKCE columns without a code was refused.
C36_Witness ==
    /\ loaded = DatabaseInconsistencyError
    /\ RowIsPending
    /\ ~lookup.grant_response_type_code
    /\ lookup.grant_code = NONE
    /\ RowHasPkce

\* The type the prefix of a well-formed token string names.
PrefixType(token) == IF token.prefix = "mat_ac" THEN "AccessToken" ELSE "RefreshToken"

\* The fields of the introspection reply that describe the token.
Metadata == {"scope", "client_id", "username", "sub", "exp", "iat"}

\* C37: the introspection endpoint takes its steps in the order fetch the
\* client, reject a public client, verify the credentials, require the
\* form, classify the token, compare it with token_type_hint, look the
\* token up: each refusal is decided by the first step that fails,
\* whatever the later inputs are.  A reply carrying scope, client_id,
\* username, sub, exp or iat goes only to a confidential client whose
\* credentials verified; a hint that differs from the classified type is
\* answered {active: false} with no lookup; and the request changes no
\* grant, session or token.
C37_StepsInOrder ==
    [][introspection' # introspection
        => LET out == introspection'
               fetched == out.client # None
               public == fetched /\ out.client[1].token_endpoint_auth_method \in {NONE, "none"}
               verified == fetched /\ ~public /\ out.credentials_verify
               seen == out.token # None
               token == out.token[1].token
               hint == out.token[1].token_type_hint
           IN  /\ UNCHANGED dbvars
               /\ (out.body # None /\ \E field \in Metadata : out.body[1][field] # None)
                    => verified
               /\ "io_error" \notin Touched(out)
                    => /\ ~fetched => out.error = "ClientNotFound" /\ out.trace = <<"fetch">>
                       /\ public => out.error = "NotAllowed" /\ out.trace = <<"fetch">>
                       /\ (fetched /\ ~public /\ ~out.credentials_verify)
                            => /\ out.error = "ClientCredentialsVerification"
                               /\ out.trace = <<"fetch", "verify">>
                       /\ (verified /\ ~out.form)
                            => out.error = "BadRequest" /\ out.trace = <<"fetch", "verify">>
                       /\ seen <=> (verified /\ out.form)
                       /\ (seen /\ Malformed(token))
                            => /\ out.body = Some(INACTIVE)
                               /\ out.trace = <<"fetch", "verify", "check">>
                       /\ (seen /\ ~Malformed(token) /\ hint # NONE /\ hint # PrefixType(token))
                            => /\ out.status = 200
                               /\ out.body = Some(INACTIVE)
                               /\ out.trace = <<"fetch", "verify", "check">>
                       /\ (seen /\ ~Malformed(token) /\ hint \in {NONE, PrefixType(token)})
                            => out.trace
                                = <<"fetch", "verify", "check",
                                    IF PrefixType(token) = "AccessToken"
                                    THEN "lookup_active_access_token"
                                    ELSE "lookup_active_refresh_token">>]_vars

\* C37 witness: a verified confidential client presented an access token
\* the ledger holds active with the hint of a refresh token, and was
\* answered {active: false} with no lookup.
C37_Witness ==
    /\ introspection.status = 200
    /\ introspection.credentials_verify
    /\ introspection.token # None
    /\ introspection.token[1].token_type_hint = "RefreshToken"
    /\ LookupActiveAccessToken(introspection.token[1].token) # {}
    /\ introspection.body = Some(INACTIVE)
    /\ introspection.trace = <<"fetch", "verify", "check">>

\* C38 as claimed: whenever GET /authorize/:id answers with an error for a
\* grant that was Pending, whichever statement failed (the rendering of the
\* callback response included), the grant is still Pending afterwards and
\* no session or token was persisted: no table has changed.
C38_ErrorLeavesPending ==
    [][\A g \in DOMAIN grants, cookie \in CookieInputs, fault \in Faults :
          (response'.kind = "error" /\ StoredPending(g))
              => \/ UNCHANGED dbvars
                 \/ ~CompletionStep(g, cookie, fault)]_vars

\* The URI the storage accepts for a query: the client is named and known,
\* and either no URI is requested and the client has one registered, or the
\* requested text parses to a registered URI.
AcceptedUris(params) ==
    IF params.client_id = None \/ params.client_id[1] \notin DOMAIN ClientRegistry
    THEN {}
    ELSE LET registered == ClientRegistry[params.client_id[1]] IN
         IF params.redirect_uri = None
         THEN IF Cardinality(registered) = 1 THEN registered ELSE {}
         ELSE {uri \in registered : /\ UrlParse(params.redirect_uri[1]).ok
                                    /\ UrlParse(params.redirect_uri[1]).value = uri}

\* C39: when the authorization handler fails, the middleware redirects,
\* with error=server_error and an error_description in the query, only to
\* the redirect URI accepted for the client that client_id names; when
\* client_id is missing, the client is unknown, the redirect_uri does not
\* parse or is not accepted, it answers with the error view and no
\* redirect; and a response without an error is passed on unchanged.
C39_RedirectOnlyToAccepted ==
    (response # NoResponse /\ inflight.query # None)
        => LET params == inflight.query[1]
               accepted == AcceptedUris(params)
           IN  /\ inflight.next.error = None => response = inflight.next
               /\ (inflight.next.error # None /\ accepted # {})
                    => /\ response.kind = "redirect"
                       /\ \E uri \in accepted :
                            /\ response.location.scheme = uri.scheme
                            /\ response.location.host = uri.host
                            /\ response.location.path = uri.path
                       /\ response.location.query[1] = <<"error", "server_error">>
                       /\ response.location.query[2][1] = "error_description"
               /\ (inflight.next.error # None /\ accepted = {})
                    => /\ response.kind = "view"
                       /\ "location" \notin DOMAIN response

\* C39 witness: the handler failed on a request of a known client that
\* names a URI of another host, and the answer is the error view.
C39_Witness ==
    /\ response # NoResponse
    /\ inflight.query # None
    /\ inflight.query[1].client_id = Some("web")
    /\ inflight.query[1].redirect_uri = Some(<<"https", "://", "evil.example", "/cb">>)
    /\ inflight.next.error # None
    /\ response.kind = "view"

====
